---------------------------- MODULE Spec2Model ----------------------------
(***************************************************************************)
(* A model of codex-mcp-proxy: the streaming JSON-RPC framer               *)
(* (src/src/parser.ts), the interception policy, the error constructors    *)
(* and the request tracker (src/src/handlers.ts), and the proxy that ties  *)
(* them to a client stream and a backend child process (src/src/server.ts).*)
(*                                                                         *)
(* TEXT.  A text is a sequence of characters.  The characters the framer   *)
(* looks at are modelled one by one: the four brackets, the double quote,  *)
(* the backslash and the newline.  A run of bytes the framer does not look *)
(* into and JSON.parse reads as one member of an object is one character   *)
(* of the model, written "key=value" (a complete member with a scalar      *)
(* value, e.g. "id=1" for  "id":1 ) or "key:" (a key that the next value   *)
(* completes, e.g. "params:").  Such a run holds no bracket, no backslash  *)
(* and an even number of quotes.  The separating commas are part of the    *)
(* runs.  "a" is a letter, "0" a number literal, "null" the literal null.  *)
(*                                                                         *)
(* VALUES.  A decoded JSON value is a node [t, s, kids]:                   *)
(*   t = "obj"  kids = the members, in insertion order                     *)
(*   t = "mem"  s = the member's character, kids = <<>> or <<its value>>   *)
(*   t = "arr"  kids = the elements                                        *)
(*   t = "str"  kids = the characters (t = "chr", s = the character)       *)
(*   t = "atom" s = "0" or "null"                                          *)
(*   t = "none" the JavaScript null/undefined a function returns           *)
(*                                                                         *)
(* Positions are 1-based; 0 stands for JavaScript's -1 (not found).        *)
(***************************************************************************)
EXTENDS Integers, Sequences, FiniteSets, TLC

VARIABLES
    \* ---- a MessageParser on its own, fed a text chunk by chunk
    buffer,     \* MessageParser.buffer
    rest,       \* the part of the incoming text not yet fed
    source,     \* the items the incoming text was made of
    returned,   \* the messages parse() has returned so far, concatenated
    midcut,     \* a chunk has ended strictly inside an item
    \* ---- the functions of handlers.ts on their own
    call,       \* the last call: [fn, request, result]
    \* ---- CodexMcpProxy
    listening,          \* start() has run: the stdin handlers are registered
    codexProcess,       \* "null" or "child"
    upstreamAvailable,
    inputBuffer,        \* inputParser.buffer
    outputBuffer,       \* outputParser.buffer
    pending,            \* requestTracker.pending
    cleanupInterval,    \* requestTracker.cleanupInterval is set
    crashed,            \* a handler has thrown: the Node process is gone
    \* ---- the world around the proxy
    now,                \* Date.now()
    procState,          \* the child: "none", "spawning", "running", "failed", "exited"
    stdinOpen,          \* the child's stdin is writable and not ended
    stdoutOpen,         \* the child's stdout has not ended
    stdinWrites,        \* the stdin.write calls: [data, request, err]
    cbDone,             \* how many write callbacks have run
    clientOut,          \* the texts written to process.stdout
    \* ---- history
    received,           \* id -> the number of requests handled that carried it
    answered,           \* the writes the backend has answered (positions)
    honest,             \* the backend has only answered requests it was sent, once each
    nClient,            \* client chunks handled
    nBackend            \* backend chunks handled

parserVars == <<buffer, rest, source, returned, midcut>>

callVars == <<call>>

proxyVars == <<listening, codexProcess, upstreamAvailable, inputBuffer,
               outputBuffer, pending, cleanupInterval, crashed>>

worldVars == <<now, procState, stdinOpen, stdoutOpen, stdinWrites, cbDone, clientOut>>

historyVars == <<received, answered, honest, nClient, nBackend>>

vars == <<parserVars, callVars, proxyVars, worldVars, historyVars>>

-----------------------------------------------------------------------------
(* Characters *)

LBRACE == "{"
RBRACE == "}"
LBRACK == "["
RBRACK == "]"
QUOTE  == "\""
BSLASH == "\\"
NL     == "\n"

Whitespace == {NL}
Atoms      == {"0", "null"}

JsonrpcMembers == {"jsonrpc=2.0", "jsonrpc=1.0"}
IdMembers      == {"id=1", "id=2", "id=3", "id=null"}
MethodStrings  == {"method=resources/list", "method=resources/read",
                   "method=tools/list", "method=tools/call"}
MethodMembers  == MethodStrings \cup {"method=7"}
ResultMembers  == {"result=ok", "result=null"}
NameMembers    == {"name=codex", "name=codex-reply", "name=other",
                   "name=constructor"}
DescrMembers   == {"description=orig", "description=codex",
                   "description=codex-reply"}
SchemaMembers  == {"inputSchema=orig", "inputSchema=codex",
                   "inputSchema=codex-reply"}
CodeMembers    == {"code=-32603", "code=-32002", "code=-1"}
MessageMembers == {"message=Resource not found",
                   "message=Codex service is not available",
                   "message=Connection to Codex service was lost",
                   "message=Failed to send request to Codex",
                   "message=backend"}
DetailMembers  == {"detail=The Codex backend process is not running or failed to start.",
                   "detail=The Codex backend process terminated unexpectedly.",
                   "detail=Unable to communicate with the Codex backend."}
SuggestMembers == {"suggestion=Wait a few seconds and retry. If the problem persists, restart the MCP server.",
                   "suggestion=Restart the MCP server and retry your request.",
                   "suggestion=This is usually a transient error. Wait 2-3 seconds and retry."}
RetryMembers   == {"retryable=true", "retryable=false"}

ScalarMembers == JsonrpcMembers \cup IdMembers \cup MethodMembers
                 \cup ResultMembers \cup NameMembers \cup DescrMembers
                 \cup SchemaMembers \cup CodeMembers \cup MessageMembers
                 \cup DetailMembers \cup SuggestMembers \cup RetryMembers

KeyMembers == {"params:", "result:", "error:", "tools:", "resources:", "data:"}

\* the key of a member character
KeyOf(c) ==
    CASE c \in JsonrpcMembers -> "jsonrpc"
      [] c \in IdMembers      -> "id"
      [] c \in MethodMembers  -> "method"
      [] c \in ResultMembers  -> "result"
      [] c \in NameMembers    -> "name"
      [] c \in DescrMembers   -> "description"
      [] c \in SchemaMembers  -> "inputSchema"
      [] c \in CodeMembers    -> "code"
      [] c \in MessageMembers -> "message"
      [] c \in DetailMembers  -> "detail"
      [] c \in SuggestMembers -> "suggestion"
      [] c \in RetryMembers   -> "retryable"
      [] c = "params:"        -> "params"
      [] c = "result:"        -> "result"
      [] c = "error:"         -> "error"
      [] c = "tools:"         -> "tools"
      [] c = "resources:"     -> "resources"
      [] c = "data:"          -> "data"
      [] OTHER                -> ""

-----------------------------------------------------------------------------
(* Values *)

None       == [t |-> "none", s |-> "", kids |-> <<>>]
Atom(c)    == [t |-> "atom", s |-> c, kids |-> <<>>]
Chr(c)     == [t |-> "chr", s |-> c, kids |-> <<>>]
Str(cs)    == [t |-> "str", s |-> "", kids |-> cs]
Arr(es)    == [t |-> "arr", s |-> "", kids |-> es]
Obj(ms)    == [t |-> "obj", s |-> "", kids |-> ms]
Mem(c)     == [t |-> "mem", s |-> c, kids |-> <<>>]
MemV(c, v) == [t |-> "mem", s |-> c, kids |-> <<v>>]

\* `key in obj`
HasKey(v, key) ==
    /\ v.t = "obj"
    /\ \E k \in 1..Len(v.kids) : KeyOf(v.kids[k].s) = key

\* the member of obj under key (None when there is none)
Member(v, key) ==
    IF HasKey(v, key)
    THEN v.kids[CHOOSE k \in 1..Len(v.kids) : KeyOf(v.kids[k].s) = key]
    ELSE None

\* obj[key] = value: an existing key keeps its place, a new one goes last
PutMember(ms, m) ==
    IF \E k \in 1..Len(ms) : KeyOf(ms[k].s) = KeyOf(m.s)
    THEN [k \in 1..Len(ms) |->
              IF KeyOf(ms[k].s) = KeyOf(m.s) THEN m ELSE ms[k]]
    ELSE Append(ms, m)

-----------------------------------------------------------------------------
(* JSON.parse and JSON.stringify *)

RECURSIVE SkipWs(_, _)
\* the first position from i on that holds no whitespace
SkipWs(s, i) ==
    IF i <= Len(s) /\ s[i] \in Whitespace THEN SkipWs(s, i + 1) ELSE i

ParseFail == [ok |-> FALSE, v |-> None, next |-> 0]

\* the characters a string literal may hold unescaped
StringPlain == {"a", "0", LBRACE, RBRACE, LBRACK, RBRACK}
\* the characters a backslash may escape
Escapable == {QUOTE, BSLASH}

RECURSIVE ParseValue(_, _)
RECURSIVE ParseMembers(_, _, _)
RECURSIVE ParseElements(_, _, _)
RECURSIVE ParseChars(_, _, _)

\* a string literal, from the position after its opening quote
ParseChars(s, i, acc) ==
    IF i > Len(s) THEN ParseFail
    ELSE IF s[i] = QUOTE THEN [ok |-> TRUE, v |-> Str(acc), next |-> i + 1]
    ELSE IF s[i] = BSLASH
    THEN IF i + 1 <= Len(s) /\ s[i + 1] \in Escapable
         THEN ParseChars(s, i + 2, Append(acc, Chr(s[i + 1])))
         ELSE ParseFail
    ELSE IF s[i] \in StringPlain
    THEN ParseChars(s, i + 1, Append(acc, Chr(s[i])))
    ELSE ParseFail

\* the elements of an array, from the position after its opening bracket
ParseElements(s, i0, acc) ==
    LET i == SkipWs(s, i0) IN
    IF i > Len(s) THEN ParseFail
    ELSE IF s[i] = RBRACK THEN [ok |-> TRUE, v |-> Arr(acc), next |-> i + 1]
    ELSE LET r == ParseValue(s, i) IN
         IF r.ok THEN ParseElements(s, r.next, Append(acc, r.v))
         ELSE ParseFail

\* the members of an object, from the position after its opening brace
ParseMembers(s, i0, acc) ==
    LET i == SkipWs(s, i0) IN
    IF i > Len(s) THEN ParseFail
    ELSE IF s[i] = RBRACE THEN [ok |-> TRUE, v |-> Obj(acc), next |-> i + 1]
    ELSE IF s[i] \in ScalarMembers
    THEN ParseMembers(s, i + 1, PutMember(acc, Mem(s[i])))
    ELSE IF s[i] \in KeyMembers
    THEN LET r == ParseValue(s, i + 1) IN
         IF r.ok THEN ParseMembers(s, r.next, PutMember(acc, MemV(s[i], r.v)))
         ELSE ParseFail
    ELSE ParseFail

ParseValue(s, i0) ==
    LET i == SkipWs(s, i0) IN
    IF i > Len(s) THEN ParseFail
    ELSE IF s[i] = LBRACE THEN ParseMembers(s, i + 1, <<>>)
    ELSE IF s[i] = LBRACK THEN ParseElements(s, i + 1, <<>>)
    ELSE IF s[i] = QUOTE THEN ParseChars(s, i + 1, <<>>)
    ELSE IF s[i] \in Atoms THEN [ok |-> TRUE, v |-> Atom(s[i]), next |-> i + 1]
    ELSE ParseFail

\* JSON.parse(text): ok = FALSE where JSON.parse throws
JsonParse(s) ==
    LET r == ParseValue(s, 1) IN
    IF r.ok /\ SkipWs(s, r.next) > Len(s)
    THEN [ok |-> TRUE, v |-> r.v]
    ELSE [ok |-> FALSE, v |-> None]

RECURSIVE JsonStringify(_)
RECURSIVE StringifyAll(_)

\* the texts of the values vs, one after the other
StringifyAll(vs) ==
    IF vs = <<>> THEN <<>>
    ELSE JsonStringify(Head(vs)) \o StringifyAll(Tail(vs))

\* JSON.stringify(value)
JsonStringify(v) ==
    CASE v.t = "obj"  -> <<LBRACE>> \o StringifyAll(v.kids) \o <<RBRACE>>
      [] v.t = "arr"  -> <<LBRACK>> \o StringifyAll(v.kids) \o <<RBRACK>>
      [] v.t = "str"  -> <<QUOTE>> \o StringifyAll(v.kids) \o <<QUOTE>>
      [] v.t = "mem"  -> <<v.s>> \o StringifyAll(v.kids)
      [] v.t = "chr"  -> IF v.s \in Escapable THEN <<BSLASH, v.s>> ELSE <<v.s>>
      [] v.t = "atom" -> <<v.s>>
      [] OTHER        -> <<>>

-----------------------------------------------------------------------------
(* types.ts: the type guards *)

\* the value of obj[key] is the string literal the member character c holds
isJsonRpcMessage(v) ==
    /\ v.t = "obj"
    /\ HasKey(v, "jsonrpc")
    /\ Member(v, "jsonrpc").s = "jsonrpc=2.0"

isJsonRpcRequest(v) ==
    /\ isJsonRpcMessage(v)
    /\ HasKey(v, "method")
    /\ Member(v, "method").s \in MethodStrings

isJsonRpcNotification(v) ==
    isJsonRpcRequest(v) /\ ~HasKey(v, "id")

isJsonRpcResponse(v) ==
    /\ isJsonRpcMessage(v)
    /\ ~HasKey(v, "method")
    /\ (HasKey(v, "result") \/ HasKey(v, "error"))

isJsonRpcBatch(v) ==
    /\ v.t = "arr"
    /\ Len(v.kids) > 0
    /\ \A k \in 1..Len(v.kids) : isJsonRpcMessage(v.kids[k])

-----------------------------------------------------------------------------
(* parser.ts: MessageParser *)

\* String.prototype.trimStart
trimStart(s) == SubSeq(s, SkipWs(s, 1), Len(s))

\* String.prototype.startsWith, for one character
startsWith(s, c) == Len(s) >= 1 /\ s[1] = c

\* String.prototype.indexOf, for one character (0 = not found)
indexOf(s, c) ==
    IF \E i \in 1..Len(s) : s[i] = c
    THEN CHOOSE i \in 1..Len(s) : s[i] = c /\ \A j \in 1..(i - 1) : s[j] # c
    ELSE 0

\* String.prototype.slice(from), from 1-based
sliceFrom(s, from) == SubSeq(s, from, Len(s))

RECURSIVE scanJsonEndNoEscape(_, _, _, _, _, _, _, _)
\* the loop of findJsonEnd as it would be if a backslash escaped nothing
scanJsonEndNoEscape(str, openChar, closeChar, i, depth, inString, escape, started) ==
    IF i > Len(str) THEN 0
    ELSE LET char == str[i] IN
         IF char = QUOTE
         THEN scanJsonEndNoEscape(str, openChar, closeChar, i + 1, depth, ~inString, FALSE, started)
         ELSE IF inString
         THEN scanJsonEndNoEscape(str, openChar, closeChar, i + 1, depth, inString, FALSE, started)
         ELSE IF char = openChar
         THEN scanJsonEndNoEscape(str, openChar, closeChar, i + 1, depth + 1, inString, FALSE, TRUE)
         ELSE IF char = closeChar
         THEN IF started /\ depth - 1 = 0 THEN i
              ELSE scanJsonEndNoEscape(str, openChar, closeChar, i + 1, depth - 1, inString, FALSE, started)
         ELSE scanJsonEndNoEscape(str, openChar, closeChar, i + 1, depth, inString, FALSE, started)

RECURSIVE scanJsonEnd(_, _, _, _, _, _, _, _)
\* the loop of findJsonEnd from position i on
scanJsonEnd(str, openChar, closeChar, i, depth, inString, escape, started) ==
    IF i > Len(str) THEN 0
    ELSE LET char == str[i] IN
         IF escape
         THEN scanJsonEnd(str, openChar, closeChar, i + 1, depth, inString, FALSE, started)
         ELSE IF char = BSLASH /\ inString
         THEN scanJsonEnd(str, openChar, closeChar, i + 1, depth, inString, TRUE, started)
         ELSE IF char = QUOTE
         THEN scanJsonEnd(str, openChar, closeChar, i + 1, depth, ~inString, FALSE, started)
         ELSE IF inString
         THEN scanJsonEnd(str, openChar, closeChar, i + 1, depth, inString, FALSE, started)
         ELSE IF char = openChar
         THEN scanJsonEnd(str, openChar, closeChar, i + 1, depth + 1, inString, FALSE, TRUE)
         ELSE IF char = closeChar
         THEN IF started /\ depth - 1 = 0 THEN i
              ELSE scanJsonEnd(str, openChar, closeChar, i + 1, depth - 1, inString, FALSE, started)
         ELSE scanJsonEnd(str, openChar, closeChar, i + 1, depth, inString, FALSE, started)

\* findJsonEnd as it would be if the first closing bracket ended the value
findJsonEndShallow(str, openChar, closeChar) == indexOf(str, closeChar)

\* the position of the bracket that closes the first value, 0 when there is none
findJsonEnd(str, openChar, closeChar) ==
    scanJsonEnd(str, openChar, closeChar, 1, 0, FALSE, FALSE, FALSE)

findJsonObjectEnd(str) == findJsonEnd(str, LBRACE, RBRACE)

findJsonArrayEnd(str) == findJsonEnd(str, LBRACK, RBRACK)

\* cutPrefix as it would be if the prefix were left in the buffer
cutPrefixKeep(buf) ==
    IF indexOf(buf, LBRACE) = 0 /\ indexOf(buf, LBRACK) = 0
    THEN [stop |-> TRUE, buffer |-> <<>>]
    ELSE [stop |-> FALSE, buffer |-> buf]

\* the buffer after the non-JSON prefix is cut (lines 42-66);
\* stop = TRUE where the code empties the buffer and returns null
cutPrefix(buf) ==
    LET trimmed     == trimStart(buf)
        objectStart == startsWith(trimmed, LBRACE)
        arrayStart  == startsWith(trimmed, LBRACK)
        objIndex    == indexOf(buf, LBRACE)
        arrIndex    == indexOf(buf, LBRACK)
        jsonStart   == IF objIndex = 0 THEN arrIndex
                       ELSE IF arrIndex = 0 THEN objIndex
                       ELSE IF objIndex < arrIndex THEN objIndex ELSE arrIndex
    IN  IF objectStart \/ arrayStart THEN [stop |-> FALSE, buffer |-> buf]
        ELSE IF objIndex = 0 /\ arrIndex = 0 THEN [stop |-> TRUE, buffer |-> <<>>]
        ELSE [stop |-> FALSE, buffer |-> sliceFrom(buf, jsonStart)]

\* what the try block makes of the decoded candidate text (lines 79-100):
\* the messages it yields; <<>> stands for the null the code returns
validate(parsed) ==
    IF ~parsed.ok THEN <<>>
    ELSE IF parsed.v.t = "arr"
    THEN IF isJsonRpcBatch(parsed.v) THEN parsed.v.kids ELSE <<>>
    ELSE IF isJsonRpcRequest(parsed.v) \/ isJsonRpcResponse(parsed.v)
    THEN <<parsed.v>>
    ELSE <<>>

\* extractSpan as it would be if a value that is not complete yet were
\* thrown away instead of kept for the next chunk
extractSpanForgetful(b, endIndex) ==
    IF endIndex = 0 THEN [buffer |-> <<>>, msgs |-> <<>>]
    ELSE [buffer |-> sliceFrom(b, endIndex + 1),
          msgs   |-> validate(JsonParse(SubSeq(b, 1, endIndex)))]

\* lines 68-100 of tryExtractMessage, endIndex being the end findJsonEnd
\* gave for the buffer b (0 = the value is not complete yet)
extractSpan(b, endIndex) ==
    IF endIndex = 0 THEN [buffer |-> b, msgs |-> <<>>]
    ELSE [buffer |-> sliceFrom(b, endIndex + 1),
          msgs   |-> validate(JsonParse(SubSeq(b, 1, endIndex)))]

\* tryExtractMessage: the buffer it leaves and its result
\* (msgs = the message, or the batch; <<>> where it returns null)
tryExtractMessage(buf) ==
    LET cut == cutPrefix(buf) IN
    IF cut.stop THEN [buffer |-> cut.buffer, msgs |-> <<>>]
    ELSE extractSpan(cut.buffer,
                     IF startsWith(trimStart(cut.buffer), LBRACK)
                     THEN findJsonArrayEnd(cut.buffer)
                     ELSE findJsonObjectEnd(cut.buffer))

RECURSIVE extractLoop(_, _)
\* the while loop of parse(), result being what tryExtractMessage just gave
extractLoop(result, messages) ==
    IF result.msgs = <<>> THEN [buffer |-> result.buffer, messages |-> messages]
    ELSE extractLoop(tryExtractMessage(result.buffer), messages \o result.msgs)

\* MessageParser.parse(chunk) on a parser whose buffer is buf
parse(buf, chunk) == extractLoop(tryExtractMessage(buf \o chunk), <<>>)

\* serializeMessage
serializeMessage(message) == JsonStringify(message) \o <<NL>>

-----------------------------------------------------------------------------
(* Messages *)

\* {jsonrpc:"2.0", id, method}; idc = "" for a notification
Request(idc, methodc) ==
    Obj(<<Mem("jsonrpc=2.0")>>
        \o (IF idc = "" THEN <<>> ELSE <<Mem(idc)>>)
        \o <<Mem(methodc)>>)

\* a request with params
RequestP(idc, methodc, params) ==
    Obj(Request(idc, methodc).kids \o <<MemV("params:", params)>>)

\* {jsonrpc:"2.0", id, result}
ResultResponse(idc, result) ==
    Obj(<<Mem("jsonrpc=2.0"), Mem(idc), MemV("result:", result)>>)

\* {jsonrpc:"2.0", id, error}
ErrorResponse(idc, error) ==
    Obj(<<Mem("jsonrpc=2.0"), Mem(idc), MemV("error:", error)>>)

\* a string value that holds  {  an escaped quote  [  and ends in a backslash
TrickyString == Str(<<Chr(LBRACE), Chr(QUOTE), Chr(LBRACK), Chr(BSLASH)>>)

\* the tool catalogue a backend returns for tools/list
ToolCatalog ==
    Obj(<<MemV("tools:",
               Arr(<<Obj(<<Mem("name=codex"), Mem("description=orig")>>),
                     Obj(<<Mem("name=other"), Mem("description=orig")>>)>>))>>)

BackendError == Obj(<<Mem("code=-1"), Mem("message=backend")>>)

-----------------------------------------------------------------------------
(* handlers.ts: the interception policy and the error constructors *)

\* request.id and request.method, as member characters ("" = undefined)
IdOf(v)     == Member(v, "id").s
MethodOf(v) == Member(v, "method").s

isNotification(request) == isJsonRpcNotification(request)

createEmptyResourcesResponse(request) ==
    IF isNotification(request) THEN None
    ELSE Obj(<<Mem("jsonrpc=2.0"), Member(request, "id"),
               MemV("result:", Obj(<<MemV("resources:", Arr(<<>>))>>))>>)

createResourceNotFoundResponse(request) ==
    IF isNotification(request) THEN None
    ELSE Obj(<<Mem("jsonrpc=2.0"), Member(request, "id"),
               MemV("error:", Obj(<<Mem("code=-32002"),
                                    Mem("message=Resource not found")>>))>>)

\* ErrorCodes
UPSTREAM_UNAVAILABLE_CODE     == "code=-32603"
UPSTREAM_CONNECTION_LOST_CODE == "code=-32603"

\* ErrorMessages
UPSTREAM_UNAVAILABLE ==
    [message    |-> "message=Codex service is not available",
     detail     |-> "detail=The Codex backend process is not running or failed to start.",
     suggestion |-> "suggestion=Wait a few seconds and retry. If the problem persists, restart the MCP server.",
     retryable  |-> "retryable=true"]

UPSTREAM_CONNECTION_LOST ==
    [message    |-> "message=Connection to Codex service was lost",
     detail     |-> "detail=The Codex backend process terminated unexpectedly.",
     suggestion |-> "suggestion=Restart the MCP server and retry your request.",
     retryable  |-> "retryable=false"]

UPSTREAM_SEND_FAILED ==
    [message    |-> "message=Failed to send request to Codex",
     detail     |-> "detail=Unable to communicate with the Codex backend.",
     suggestion |-> "suggestion=This is usually a transient error. Wait 2-3 seconds and retry.",
     retryable  |-> "retryable=true"]

\* createErrorResponse as it would be if data did not take the method
createErrorResponseNoMethod(request, code, message, data) ==
    IF isNotification(request) THEN None
    ELSE Obj(<<Mem("jsonrpc=2.0"), Member(request, "id"),
               MemV("error:",
                    Obj(<<Mem(code), Mem(message),
                          MemV("data:",
                               Obj(<<Mem(data[1]), Mem(data[2]), Mem(data[3])>>))>>))>>)

\* createErrorResponse as it would be without the test for a notification
createErrorResponseAlways(request, code, message, data) ==
    Obj(<<Mem("jsonrpc=2.0"), Member(request, "id"),
          MemV("error:",
               Obj(<<Mem(code), Mem(message),
                     MemV("data:",
                          Obj(<<Mem(data[1]), Mem(data[2]), Mem(data[3]),
                                Member(request, "method")>>))>>))>>)

\* createErrorResponse(request, code, message, data), data always given here:
\* data = <<detail, suggestion, retryable>>
createErrorResponse(request, code, message, data) ==
    IF isNotification(request) THEN None
    ELSE Obj(<<Mem("jsonrpc=2.0"), Member(request, "id"),
               MemV("error:",
                    Obj(<<Mem(code), Mem(message),
                          MemV("data:",
                               Obj(<<Mem(data[1]), Mem(data[2]), Mem(data[3]),
                                     Member(request, "method")>>))>>))>>)

\* createUpstreamUnavailableError as it would be if it told the client not
\* to retry
createUpstreamUnavailableErrorFinal(request) ==
    createErrorResponse(request, UPSTREAM_UNAVAILABLE_CODE,
                        UPSTREAM_UNAVAILABLE.message,
                        <<UPSTREAM_UNAVAILABLE.detail,
                          UPSTREAM_UNAVAILABLE.suggestion,
                          "retryable=false">>)

\* createUpstreamUnavailableError as it would be if the error carried the
\* id null
createUpstreamUnavailableErrorNullId(request) ==
    createErrorResponse(Obj(PutMember(request.kids, Mem("id=null"))), UPSTREAM_UNAVAILABLE_CODE,
                        UPSTREAM_UNAVAILABLE.message,
                        <<UPSTREAM_UNAVAILABLE.detail,
                          UPSTREAM_UNAVAILABLE.suggestion,
                          UPSTREAM_UNAVAILABLE.retryable>>)

createUpstreamUnavailableError(request) ==
    createErrorResponse(request, UPSTREAM_UNAVAILABLE_CODE,
                        UPSTREAM_UNAVAILABLE.message,
                        <<UPSTREAM_UNAVAILABLE.detail,
                          UPSTREAM_UNAVAILABLE.suggestion,
                          UPSTREAM_UNAVAILABLE.retryable>>)

createUpstreamConnectionLostError(request) ==
    createErrorResponse(request, UPSTREAM_CONNECTION_LOST_CODE,
                        UPSTREAM_CONNECTION_LOST.message,
                        <<UPSTREAM_CONNECTION_LOST.detail,
                          UPSTREAM_CONNECTION_LOST.suggestion,
                          UPSTREAM_CONNECTION_LOST.retryable>>)

\* createUpstreamSendFailedError as it would be if a failed write were
\* reported as a lost connection
createUpstreamSendFailedErrorAsLost(request) ==
    createUpstreamConnectionLostError(request)

createUpstreamSendFailedError(request) ==
    createErrorResponse(request, UPSTREAM_UNAVAILABLE_CODE,
                        UPSTREAM_SEND_FAILED.message,
                        <<UPSTREAM_SEND_FAILED.detail,
                          UPSTREAM_SEND_FAILED.suggestion,
                          UPSTREAM_SEND_FAILED.retryable>>)

\* handleRequest as it would be if every resources/ method were given the
\* empty list
handleRequestAllEmpty(request) ==
    IF MethodOf(request) \in {"method=resources/list", "method=resources/read"}
    THEN createEmptyResourcesResponse(request)
    ELSE None

\* handleRequest: the reply, or None (JavaScript null: "forward it")
handleRequest(request) ==
    IF MethodOf(request) = "method=resources/list"
    THEN createEmptyResourcesResponse(request)
    ELSE IF MethodOf(request) = "method=resources/read"
    THEN createResourceNotFoundResponse(request)
    ELSE None

-----------------------------------------------------------------------------
(* handlers.ts: the tool catalogue rewrite *)

\* ENHANCED_TOOL_DESCRIPTIONS[name]: the description and the inputSchema
ENHANCED_TOOL_DESCRIPTIONS ==
    [c \in {"name=codex", "name=codex-reply"} |->
        IF c = "name=codex"
        THEN [description |-> "description=codex", inputSchema |-> "inputSchema=codex"]
        ELSE [description |-> "description=codex-reply",
              inputSchema |-> "inputSchema=codex-reply"]]

\* a thrown TypeError
Thrown == [t |-> "throw", s |-> "TypeError", kids |-> <<>>]

\* JavaScript truthiness of a member's value
Truthy(m) ==
    IF m.t # "mem" THEN FALSE
    ELSE IF m.kids = <<>> THEN m.s # "result=null"
    ELSE LET v == m.kids[1] IN
         CASE v.t = "atom" -> FALSE
           [] v.t = "str"  -> v.kids # <<>>
           [] OTHER        -> TRUE

\* typeof value === 'object', for a truthy member
IsObjectValue(m) == m.kids # <<>> /\ m.kids[1].t \in {"obj", "arr"}

\* the names ENHANCED_TOOL_DESCRIPTIONS[name] finds on the prototype of the
\* object literal: the lookup gives a truthy value that has no description
\* and no inputSchema
InheritedNames == {"name=constructor"}

\* the members without the one under key: {...tool, description: undefined}
\* as JSON.stringify writes it
DropMember(ms, key) ==
    LET Keep(m) == KeyOf(m.s) # key IN SelectSeq(ms, Keep)

\* the callback of tools.map: a tool that is null throws on tool.name; a
\* name the table holds gives the description and inputSchema of the table;
\* an inherited name gives description: undefined and
\* inputSchema: undefined ?? tool.inputSchema
enhanceTool(tool) ==
    IF tool.t = "atom" /\ tool.s = "null" THEN Thrown
    ELSE IF tool.t = "obj"
              /\ Member(tool, "name").s \in DOMAIN ENHANCED_TOOL_DESCRIPTIONS
    THEN LET enhancement == ENHANCED_TOOL_DESCRIPTIONS[Member(tool, "name").s] IN
         Obj(PutMember(PutMember(tool.kids, Mem(enhancement.description)),
                       Mem(enhancement.inputSchema)))
    ELSE IF tool.t = "obj" /\ Member(tool, "name").s \in InheritedNames
    THEN Obj(DropMember(tool.kids, "description"))
    ELSE tool

enhanceToolsListResponse(response) ==
    LET rm == Member(response, "result") IN
    IF ~Truthy(rm) \/ ~IsObjectValue(rm) THEN response
    ELSE LET result == rm.kids[1]
             tm     == Member(result, "tools")
         IN  IF ~Truthy(tm) \/ tm.kids[1].t # "arr" THEN response
             ELSE LET tools         == tm.kids[1].kids
                      enhancedTools == [k \in 1..Len(tools) |-> enhanceTool(tools[k])]
                  IN  IF \E k \in 1..Len(tools) : enhancedTools[k] = Thrown
                      THEN Thrown
                      ELSE Obj(PutMember(response.kids,
                               MemV("result:",
                                    Obj(PutMember(result.kids,
                                        MemV("tools:", Arr(enhancedTools)))))))

shouldEnhanceResponse(method) == method = "method=tools/list"

-----------------------------------------------------------------------------
(* handlers.ts: RequestTracker.  pending is a function from the ids        *)
(* tracked (member characters) to [request, timestamp].                    *)

ttlMs   == 60000
maxSize == 10000

\* the options of a tracker made by new RequestTracker()
DefaultOptions == [ttlMs |-> ttlMs, maxSize |-> maxSize]

\* cleanup() as it would be if an entry as old as the TTL were evicted
cleanupWithEager(options, map, clock) ==
    LET expired == {id \in DOMAIN map : clock - map[id].timestamp >= options.ttlMs} IN
    [pending |-> [id \in (DOMAIN map) \ expired |-> map[id]],
     cleaned |-> Cardinality(expired)]

\* cleanup() as it would be if it returned the number of entries it looked at
cleanupWithCountAll(options, map, clock) ==
    LET expired == {id \in DOMAIN map : clock - map[id].timestamp > options.ttlMs} IN
    [pending |-> [id \in (DOMAIN map) \ expired |-> map[id]],
     cleaned |-> Cardinality(DOMAIN map)]

\* cleanup() of a tracker made with the options: the map it leaves and the
\* number it returns
cleanupWith(options, map, clock) ==
    LET expired == {id \in DOMAIN map : clock - map[id].timestamp > options.ttlMs} IN
    [pending |-> [id \in (DOMAIN map) \ expired |-> map[id]],
     cleaned |-> Cardinality(expired)]

\* track(request) as it would be if an id that is tracked kept its entry
trackWithKeepFirst(options, map, request, clock) ==
    IF ~HasKey(request, "id") THEN map
    ELSE IF IdOf(request) \in DOMAIN map THEN map
    ELSE [i \in (DOMAIN map) \cup {IdOf(request)} |->
             IF i = IdOf(request) THEN [request |-> request, timestamp |-> clock]
             ELSE map[i]]

\* track(request) as it would be if a tracker that is full after the sweep
\* took no new id
trackWithBounded(options, map, request, clock) ==
    IF ~HasKey(request, "id") THEN map
    ELSE IF Cardinality(DOMAIN map) < options.maxSize
    THEN [i \in (DOMAIN map) \cup {IdOf(request)} |->
             IF i = IdOf(request) THEN [request |-> request, timestamp |-> clock]
             ELSE map[i]]
    ELSE IF Cardinality(DOMAIN cleanupWith(options, map, clock).pending) >= options.maxSize
    THEN cleanupWith(options, map, clock).pending
    ELSE [i \in (DOMAIN cleanupWith(options, map, clock).pending) \cup {IdOf(request)} |->
             IF i = IdOf(request) THEN [request |-> request, timestamp |-> clock]
             ELSE map[i]]

\* track(request) as it would be if every track() swept the tracker
trackWithAlwaysSweep(options, map, request, clock) ==
    IF ~HasKey(request, "id") THEN map
    ELSE [i \in (DOMAIN cleanupWith(options, map, clock).pending) \cup {IdOf(request)} |->
             IF i = IdOf(request) THEN [request |-> request, timestamp |-> clock]
             ELSE map[i]]

\* track(request) as it would be if the capacity were looked at before the
\* id of the request
trackWithSweepFirst(options, map, request, clock) ==
    IF ~HasKey(request, "id")
    THEN IF Cardinality(DOMAIN map) >= options.maxSize
         THEN cleanupWith(options, map, clock).pending
         ELSE map
    ELSE [i \in (DOMAIN (IF Cardinality(DOMAIN map) >= options.maxSize
                         THEN cleanupWith(options, map, clock).pending
                         ELSE map)) \cup {IdOf(request)} |->
             IF i = IdOf(request) THEN [request |-> request, timestamp |-> clock]
             ELSE map[i]]

\* track(request) of a tracker made with the options
trackWith(options, map, request, clock) ==
    IF ~HasKey(request, "id") THEN map
    ELSE LET p  == IF Cardinality(DOMAIN map) >= options.maxSize
                   THEN cleanupWith(options, map, clock).pending
                   ELSE map
             id == IdOf(request)
         IN  [i \in (DOMAIN p) \cup {id} |->
                 IF i = id THEN [request |-> request, timestamp |-> clock] ELSE p[i]]

\* cleanup() of the proxy's tracker
cleanup(map, clock) == cleanupWith(DefaultOptions, map, clock)

\* track(request) of the proxy's tracker
track(map, request, clock) == trackWith(DefaultOptions, map, request, clock)

\* complete(id) as it would be if it left the entry in the tracker
completePeek(map, id) ==
    IF id = "" \/ id = "id=null" THEN [pending |-> map, request |-> None]
    ELSE [pending |-> map,
          request |-> IF id \in DOMAIN map THEN map[id].request ELSE None]

\* complete(id): the map it leaves and the request it returns (None = undefined);
\* id = "" stands for undefined
complete(map, id) ==
    IF id = "" \/ id = "id=null" THEN [pending |-> map, request |-> None]
    ELSE [pending |-> [i \in (DOMAIN map) \ {id} |-> map[i]],
          request |-> IF id \in DOMAIN map THEN map[id].request ELSE None]

has(map, id) == id \in DOMAIN map

size(map) == Cardinality(DOMAIN map)

-----------------------------------------------------------------------------
(* A MessageParser on its own: the incoming text is a sequence of items,   *)
(* fed in chunks cut at arbitrary positions.                               *)

\* the number of items an incoming text is made of, at most
MaxItems == 2

\* the valid messages the incoming text may hold
ValidMessages ==
    { Request("id=1", "method=tools/list"),
      RequestP("", "method=tools/call", TrickyString),
      RequestP("id=2", "method=resources/read", Arr(<<Obj(<<>>), Atom("0")>>)),
      ResultResponse("id=1", ToolCatalog),
      ErrorResponse("id=null", BackendError),
      Obj(<<Mem("jsonrpc=2.0"), Mem("id=2"), Mem("result=ok")>>) }

ValidItem(m) == [valid |-> TRUE, v |-> m, text |-> serializeMessage(m)]
RawItem(t)   == [valid |-> FALSE, v |-> None, text |-> t]

\* what else the stream may hold: a log line, values of the wrong shape,
\* a value that does not decode, a value that is never closed, batches
RawTexts ==
    { <<"a", "a", NL>>,
      <<LBRACE, "jsonrpc=1.0", "id=1", "method=tools/list", RBRACE, NL>>,
      <<LBRACE, "a", RBRACE, NL>>,
      <<LBRACE, "jsonrpc=2.0", "id=1">>,
      <<LBRACK>> \o JsonStringify(Request("id=1", "method=tools/call"))
                 \o JsonStringify(Request("", "method=tools/list"))
                 \o <<RBRACK, NL>>,
      <<LBRACK, LBRACE, "jsonrpc=2.0", RBRACE, RBRACK, NL>> }

ParserItems == {ValidItem(m) : m \in ValidMessages} \cup {RawItem(t) : t \in RawTexts}

RECURSIVE TextOf(_)
\* the text a sequence of items makes
TextOf(items) ==
    IF items = <<>> THEN <<>> ELSE Head(items).text \o TextOf(Tail(items))

ItemSeqs == UNION {[1..n -> ParserItems] : n \in 0..MaxItems}

NoCall == [fn |-> "", request |-> None, result |-> None]

\* the proxy as the constructor leaves it, in a world where nothing has happened
Constructed ==
    /\ listening = FALSE
    /\ codexProcess = "null"
    /\ upstreamAvailable = FALSE
    /\ inputBuffer = <<>>
    /\ outputBuffer = <<>>
    /\ pending = [i \in {} |-> None]
    /\ cleanupInterval = FALSE
    /\ crashed = FALSE
    /\ now = 0
    /\ procState = "none"
    /\ stdinOpen = FALSE
    /\ stdoutOpen = FALSE
    /\ stdinWrites = <<>>
    /\ cbDone = 0
    /\ clientOut = <<>>
    /\ received = [i \in IdMembers |-> 0]
    /\ answered = {}
    /\ honest = TRUE
    /\ nClient = 0
    /\ nBackend = 0

ParserInit ==
    /\ source \in ItemSeqs
    /\ rest = TextOf(source)
    /\ buffer = <<>>
    /\ returned = <<>>
    /\ midcut = FALSE
    /\ call = NoCall
    /\ Constructed

\* the positions of the incoming text at which an item ends
ItemEnds == {Len(TextOf(SubSeq(source, 1, j))) : j \in 0..Len(source)}

\* the stream delivers the next k characters and parse() handles them
Feed(k) ==
    /\ k \in 0..Len(rest)
    /\ LET chunk == SubSeq(rest, 1, k)
           out   == parse(buffer, chunk)
       IN  /\ buffer' = out.buffer
           /\ returned' = returned \o out.messages
    /\ rest' = sliceFrom(rest, k + 1)
    /\ midcut' = (midcut \/ (Len(TextOf(source)) - Len(rest')) \notin ItemEnds)
    /\ UNCHANGED <<source, callVars, proxyVars, worldVars, historyVars>>

ParserNext == \E k \in 0..Len(rest) : Feed(k)

SpecParser == ParserInit /\ [][ParserNext]_vars

-----------------------------------------------------------------------------
(* parse() and findJsonEnd on their own: a fresh parser is given a message *)
(* behind a prefix of noise, and the scanner a message whose string value  *)
(* is drawn from the characters the scanner tells apart.                   *)

\* the length of a noise prefix, and of a string value, at most
MaxNoiseLen  == 2
MaxStringLen == 3

\* what a prefix may hold: no opening bracket
NoiseChars == {"a", NL, QUOTE, BSLASH, RBRACE, RBRACK, "id=1"}

NoisePrefixes == UNION {[1..n -> NoiseChars] : n \in 0..MaxNoiseLen}

\* what a string value may hold
StringChars == {"a", LBRACE, RBRACE, LBRACK, RBRACK, QUOTE, BSLASH}

StringValues ==
    UNION {{Str([k \in 1..n |-> Chr(cs[k])]) : cs \in [1..n -> StringChars]} :
              n \in 0..MaxStringLen}

\* the input of one call: a prefix and a message for parse(), or a string
\* value for the scanner
NoisyInputs ==
    {[prefix |-> prefix, message |-> message, value |-> None] :
        prefix \in NoisePrefixes, message \in ValidMessages}

StringInputs ==
    {[prefix |-> <<>>, message |-> RequestP("id=1", "method=tools/call", value),
      value |-> value] : value \in StringValues}

FramerInit ==
    /\ call \in {[fn |-> "none", request |-> input, result |-> None] :
                    input \in NoisyInputs \cup StringInputs}
    /\ buffer = <<>>
    /\ rest = <<>>
    /\ source = <<>>
    /\ returned = <<>>
    /\ midcut = FALSE
    /\ Constructed

\* fresh parsers are given the message behind the prefix, the message
\* alone, and the prefix alone
CallParseNoisy ==
    /\ call.fn = "none"
    /\ call.request \in NoisyInputs
    /\ call' = [call EXCEPT
           !.fn = "parse",
           !.result =
               [noisy |-> parse(<<>>, call.request.prefix
                                          \o serializeMessage(call.request.message)),
                plain |-> parse(<<>>, serializeMessage(call.request.message)),
                alone |-> parse(<<>>, call.request.prefix)]]
    /\ UNCHANGED <<parserVars, proxyVars, worldVars, historyVars>>

\* the text that follows the message given to the scanner
MoreText == serializeMessage(Request("id=2", "method=tools/list"))

\* the scanner is given a message whose params is the string value, followed
\* by another message, as an object and inside an array
CallFindJsonEnd ==
    /\ call.fn = "none"
    /\ call.request \in StringInputs
    /\ call' = [call EXCEPT
           !.fn = "findJsonEnd",
           !.result =
               [objectEnd |-> findJsonObjectEnd(JsonStringify(call.request.message)
                                                    \o <<NL>> \o MoreText),
                arrayEnd  |-> findJsonArrayEnd(<<LBRACK>>
                                                   \o JsonStringify(call.request.message)
                                                   \o <<RBRACK, NL>> \o MoreText),
                messages  |-> parse(<<>>, JsonStringify(call.request.message)
                                               \o <<NL>> \o MoreText).messages]]
    /\ UNCHANGED <<parserVars, proxyVars, worldVars, historyVars>>

FramerNext ==
    \/ CallParseNoisy
    \/ CallFindJsonEnd

SpecFramer == FramerInit /\ [][FramerNext]_vars

-----------------------------------------------------------------------------
(* The functions of handlers.ts on their own: each is called on every      *)
(* request of a bounded set.                                               *)

\* the ids and the methods of the requests (no id = a notification)
PolicyIds     == {"", "id=1", "id=2", "id=null"}
PolicyMethods == {"method=resources/list", "method=resources/read",
                  "method=tools/list", "method=tools/call"}
\* their params: none, a string, an array, an object
PolicyParams  == {None, TrickyString, Arr(<<Obj(<<>>), Atom("0")>>),
                  Obj(<<Mem("name=codex")>>)}

PolicyRequests ==
    {IF params = None THEN Request(idc, methodc) ELSE RequestP(idc, methodc, params) :
        idc \in PolicyIds, methodc \in PolicyMethods, params \in PolicyParams}

PolicyInit ==
    /\ call = NoCall
    /\ buffer = <<>>
    /\ rest = <<>>
    /\ source = <<>>
    /\ returned = <<>>
    /\ midcut = FALSE
    /\ Constructed

otherVars == <<parserVars, proxyVars, worldVars, historyVars>>

CallHandleRequest(request) ==
    /\ call' = [fn |-> "handleRequest", request |-> request,
                result |-> handleRequest(request)]
    /\ UNCHANGED otherVars

CallUpstreamUnavailable(request) ==
    /\ call' = [fn |-> "createUpstreamUnavailableError", request |-> request,
                result |-> createUpstreamUnavailableError(request)]
    /\ UNCHANGED otherVars

CallUpstreamConnectionLost(request) ==
    /\ call' = [fn |-> "createUpstreamConnectionLostError", request |-> request,
                result |-> createUpstreamConnectionLostError(request)]
    /\ UNCHANGED otherVars

CallUpstreamSendFailed(request) ==
    /\ call' = [fn |-> "createUpstreamSendFailedError", request |-> request,
                result |-> createUpstreamSendFailedError(request)]
    /\ UNCHANGED otherVars

PolicyNext ==
    \E request \in PolicyRequests :
        \/ CallHandleRequest(request)
        \/ CallUpstreamUnavailable(request)
        \/ CallUpstreamConnectionLost(request)
        \/ CallUpstreamSendFailed(request)

SpecPolicy == PolicyInit /\ [][PolicyNext]_vars

-----------------------------------------------------------------------------
(* server.ts: CodexMcpProxy.  A handler runs to its end before the next    *)
(* event is handled; while it runs it changes the record                   *)
(*   m = [pending, writes, out, crashed, received, answered, honest].      *)

\* sendToClient
sendToClient(m, response) ==
    [m EXCEPT !.out = Append(@, serializeMessage(response))]

\* forwardToCodex as it would be if a write went ahead of the writes
\* that are waiting
forwardToCodexAhead(m, request, werr) ==
    IF codexProcess = "null" \/ ~stdinOpen
    THEN LET errorResponse == createUpstreamConnectionLostError(request) IN
         IF errorResponse # None THEN sendToClient(m, errorResponse) ELSE m
    ELSE [m EXCEPT !.writes = SubSeq(@, 1, cbDone)
                                \o <<[data    |-> serializeMessage(request),
                                      request |-> request,
                                      err     |-> werr]>>
                                \o SubSeq(@, cbDone + 1, Len(@))]

\* forwardToCodex as it would be if it wrote without looking at the
\* process handle
forwardToCodexNoHandle(m, request, werr) ==
    IF ~stdinOpen
    THEN LET errorResponse == createUpstreamConnectionLostError(request) IN
         IF errorResponse # None THEN sendToClient(m, errorResponse) ELSE m
    ELSE [m EXCEPT !.writes = Append(@, [data    |-> serializeMessage(request),
                                         request |-> request,
                                         err     |-> werr])]

\* forwardToCodex; werr is what the write's callback will report
forwardToCodex(m, request, werr) ==
    IF codexProcess = "null" \/ ~stdinOpen
    THEN LET errorResponse == createUpstreamConnectionLostError(request) IN
         IF errorResponse # None THEN sendToClient(m, errorResponse) ELSE m
    ELSE [m EXCEPT !.writes = Append(@, [data    |-> serializeMessage(request),
                                         request |-> request,
                                         err     |-> werr])]

\* writeCallback as it would be if it reported every write as failed
writeCallbackAlways(m, w) ==
    LET errorResponse == createUpstreamSendFailedError(w.request) IN
    IF errorResponse # None THEN sendToClient(m, errorResponse) ELSE m

\* the callback of stdin.write for the write w
writeCallback(m, w) ==
    IF w.err
    THEN LET errorResponse == createUpstreamSendFailedError(w.request) IN
         IF errorResponse # None THEN sendToClient(m, errorResponse) ELSE m
    ELSE m

\* handleClientRequest as it would be if a forwarded request were not
\* tracked
handleClientRequestUntracked(m, request, werr) ==
    LET interceptedResponse == handleRequest(request) IN
    IF interceptedResponse # None
    THEN sendToClient(m, interceptedResponse)
    ELSE IF ~upstreamAvailable
    THEN LET errorResponse == createUpstreamUnavailableError(request) IN
         IF errorResponse # None THEN sendToClient(m, errorResponse) ELSE m
    ELSE forwardToCodex(m, request, werr)

\* handleClientRequest as it would be if the availability of the backend
\* were not looked at
handleClientRequestForwardAnyway(m, request, werr) ==
    LET interceptedResponse == handleRequest(request) IN
    IF interceptedResponse # None
    THEN sendToClient(m, interceptedResponse)
    ELSE forwardToCodex(
             IF ~isNotification(request)
             THEN [m EXCEPT !.pending = track(@, request, now)]
             ELSE m,
             request, werr)

\* handleClientRequest as it would be if the request were tracked before
\* the availability of the backend is looked at
handleClientRequestTrackFirst(m, request, werr) ==
    LET interceptedResponse == handleRequest(request) IN
    IF interceptedResponse # None
    THEN sendToClient(m, interceptedResponse)
    ELSE IF ~upstreamAvailable
    THEN LET errorResponse == createUpstreamUnavailableError(request) IN
         IF errorResponse # None
         THEN sendToClient([m EXCEPT !.pending = track(@, request, now)], errorResponse)
         ELSE m
    ELSE forwardToCodex(
             IF ~isNotification(request)
             THEN [m EXCEPT !.pending = track(@, request, now)]
             ELSE m,
             request, werr)

\* handleClientRequest as it would be if the availability of the backend
\* were looked at before the interception policy
handleClientRequestGateFirst(m, request, werr) ==
    IF ~upstreamAvailable
    THEN LET errorResponse == createUpstreamUnavailableError(request) IN
         IF errorResponse # None THEN sendToClient(m, errorResponse) ELSE m
    ELSE LET interceptedResponse == handleRequest(request) IN
         IF interceptedResponse # None
         THEN sendToClient(m, interceptedResponse)
         ELSE forwardToCodex(
                  IF ~isNotification(request)
                  THEN [m EXCEPT !.pending = track(@, request, now)]
                  ELSE m,
                  request, werr)

\* handleClientRequest
handleClientRequest(m, request, werr) ==
    LET interceptedResponse == handleRequest(request) IN
    IF interceptedResponse # None
    THEN sendToClient(m, interceptedResponse)
    ELSE IF ~upstreamAvailable
    THEN LET errorResponse == createUpstreamUnavailableError(request) IN
         IF errorResponse # None THEN sendToClient(m, errorResponse) ELSE m
    ELSE forwardToCodex(
             IF ~isNotification(request)
             THEN [m EXCEPT !.pending = track(@, request, now)]
             ELSE m,
             request, werr)

\* handleCodexResponse as it would be if a response were relayed only when
\* its request is found
handleCodexResponseTrackedOnly(m, response) ==
    LET done            == complete(m.pending, IdOf(response))
        originalRequest == done.request
        m1              == [m EXCEPT !.pending = done.pending]
    IN  IF originalRequest = None THEN m1
        ELSE IF shouldEnhanceResponse(MethodOf(originalRequest))
        THEN LET finalResponse == enhanceToolsListResponse(response) IN
             IF finalResponse = Thrown THEN [m1 EXCEPT !.crashed = TRUE]
             ELSE sendToClient(m1, finalResponse)
        ELSE sendToClient(m1, response)

\* handleCodexResponse as it would be if the response to every tracked
\* request were enriched, whatever the method
handleCodexResponseEnhanceAll(m, response) ==
    LET done            == complete(m.pending, IdOf(response))
        originalRequest == done.request
        m1              == [m EXCEPT !.pending = done.pending]
    IN  IF originalRequest # None
        THEN LET finalResponse == enhanceToolsListResponse(response) IN
             IF finalResponse = Thrown THEN [m1 EXCEPT !.crashed = TRUE]
             ELSE sendToClient(m1, finalResponse)
        ELSE sendToClient(m1, response)

\* handleCodexResponse
handleCodexResponse(m, response) ==
    LET done            == complete(m.pending, IdOf(response))
        originalRequest == done.request
        m1              == [m EXCEPT !.pending = done.pending]
    IN  IF originalRequest # None /\ shouldEnhanceResponse(MethodOf(originalRequest))
        THEN LET finalResponse == enhanceToolsListResponse(response) IN
             IF finalResponse = Thrown THEN [m1 EXCEPT !.crashed = TRUE]
             ELSE sendToClient(m1, finalResponse)
        ELSE sendToClient(m1, response)

\* history: one more request carrying this id has been handled
noteReceived(m, request) ==
    IF HasKey(request, "id")
    THEN [m EXCEPT !.received[IdOf(request)] = @ + 1]
    ELSE m

\* the writes the backend received and has not answered that carried this id
Unanswered(m, id) ==
    {k \in 1..Len(m.writes) :
        /\ ~m.writes[k].err
        /\ k \notin m.answered
        /\ HasKey(m.writes[k].request, "id")
        /\ IdOf(m.writes[k].request) = id}

\* history: the backend has sent this response
noteAnswered(m, response) ==
    LET open == Unanswered(m, IdOf(response)) IN
    IF open = {} THEN [m EXCEPT !.honest = FALSE]
    ELSE [m EXCEPT !.answered = @ \cup {CHOOSE k \in open : \A j \in open : k <= j}]

\* the loop of the stdin 'data' handler as it would be if only the first
\* message of a chunk were handled
clientLoopFirstOnly(m, messages, errs, k) ==
    IF k > Len(messages) \/ k > 1 THEN m
    ELSE IF isJsonRpcRequest(messages[k])
    THEN handleClientRequest(noteReceived(m, messages[k]), messages[k], errs[k])
    ELSE m

RECURSIVE clientLoop(_, _, _, _)
\* the loop of the stdin 'data' handler, from message k on
clientLoop(m, messages, errs, k) ==
    IF k > Len(messages) THEN m
    ELSE clientLoop(IF isJsonRpcRequest(messages[k])
                    THEN handleClientRequest(noteReceived(m, messages[k]),
                                             messages[k], errs[k])
                    ELSE m,
                    messages, errs, k + 1)

RECURSIVE codexLoopAll(_, _, _)
\* the loop of the child's stdout 'data' handler as it would be if every
\* message of the backend were relayed
codexLoopAll(m, messages, k) ==
    IF k > Len(messages) \/ m.crashed THEN m
    ELSE codexLoopAll(handleCodexResponse(IF isJsonRpcResponse(messages[k])
                                          THEN noteAnswered(m, messages[k])
                                          ELSE m,
                                          messages[k]),
                      messages, k + 1)

RECURSIVE codexLoop(_, _, _)
\* the loop of the child's stdout 'data' handler, from message k on;
\* a throw ends it
codexLoop(m, messages, k) ==
    IF k > Len(messages) \/ m.crashed THEN m
    ELSE codexLoop(IF isJsonRpcResponse(messages[k])
                   THEN handleCodexResponse(noteAnswered(m, messages[k]), messages[k])
                   ELSE m,
                   messages, k + 1)

\* the state a handler starts from
Handling ==
    [pending |-> pending, writes |-> stdinWrites, out |-> clientOut,
     crashed |-> crashed, received |-> received, answered |-> answered,
     honest |-> honest]

\* the state a handler leaves
Handled(m) ==
    /\ pending' = m.pending
    /\ stdinWrites' = m.writes
    /\ clientOut' = m.out
    /\ crashed' = m.crashed
    /\ received' = m.received
    /\ answered' = m.answered
    /\ honest' = m.honest

-----------------------------------------------------------------------------
(* The events *)

MaxClientChunks  == 2
MaxBackendChunks == 1
MaxTicks         == 2

\* what the client may send in one chunk: a request the proxy forwards and
\* enriches, a notification of an intercepted method, a request of an
\* intercepted method, a batch of a request and a notification, the two
\* halves of a request, a response
ClientChunks ==
    { serializeMessage(Request("id=1", "method=tools/list")),
      serializeMessage(Request("", "method=resources/list")),
      serializeMessage(Request("id=2", "method=resources/read")),
      <<LBRACK>> \o JsonStringify(Request("id=1", "method=tools/call"))
                 \o JsonStringify(Request("", "method=tools/call"))
                 \o <<RBRACK, NL>>,
      <<LBRACE, "jsonrpc=2.0", "id=2">>,
      <<"method=tools/call", RBRACE, NL>>,
      serializeMessage(Obj(<<Mem("jsonrpc=2.0"), Mem("id=1"), Mem("result=ok")>>)) }

\* what the backend may print in one chunk: a tool catalogue, the same
\* response twice, a response with the id null, a notification of its own,
\* a log line and the start of a response, a catalogue that holds null
BackendChunks ==
    { serializeMessage(ResultResponse("id=1", ToolCatalog)),
      serializeMessage(Obj(<<Mem("jsonrpc=2.0"), Mem("id=2"), Mem("result=ok")>>))
          \o serializeMessage(Obj(<<Mem("jsonrpc=2.0"), Mem("id=2"), Mem("result=ok")>>)),
      serializeMessage(ErrorResponse("id=null", BackendError)),
      serializeMessage(Request("", "method=tools/call")),
      <<"a", NL, LBRACE, "jsonrpc=2.0", "id=2">>,
      serializeMessage(ResultResponse("id=1",
          Obj(<<MemV("tools:", Arr(<<Atom("null")>>))>>))) }

\* start(): startCleanup, spawnCodexProcess, setupStdioHandlers
Start ==
    /\ ~listening /\ ~crashed
    /\ procState = "none"
    /\ cleanupInterval' = TRUE
    /\ codexProcess' = "child"
    /\ procState' = "spawning"
    /\ stdinOpen' = TRUE
    /\ stdoutOpen' = TRUE
    /\ listening' = TRUE
    /\ UNCHANGED <<upstreamAvailable, inputBuffer, outputBuffer, pending, crashed,
                   now, stdinWrites, cbDone, clientOut, historyVars, parserVars, callVars>>

\* process.stdin 'data' as it would be if the two directions shared one
\* MessageParser
ClientDataShared(chunk) ==
    /\ listening /\ ~crashed
    /\ nClient < MaxClientChunks
    /\ LET out == parse(inputBuffer, chunk) IN
       /\ inputBuffer' = out.buffer
       /\ outputBuffer' = out.buffer
       /\ \E errs \in [1..Len(out.messages) -> BOOLEAN] :
             /\ \A k \in 1..Len(out.messages) :
                    ~errs[k] => procState \in {"spawning", "running"}
             /\ Handled(clientLoop(Handling, out.messages, errs, 1))
    /\ nClient' = nClient + 1
    /\ UNCHANGED <<listening, codexProcess, upstreamAvailable,
                   cleanupInterval, now, procState, stdinOpen, stdoutOpen, cbDone, nBackend,
                   parserVars, callVars>>

\* process.stdin 'data'
ClientData(chunk) ==
    /\ listening /\ ~crashed
    /\ nClient < MaxClientChunks
    /\ LET out == parse(inputBuffer, chunk) IN
       /\ inputBuffer' = out.buffer
       /\ \E errs \in [1..Len(out.messages) -> BOOLEAN] :
             /\ \A k \in 1..Len(out.messages) :
                    ~errs[k] => procState \in {"spawning", "running"}
             /\ Handled(clientLoop(Handling, out.messages, errs, 1))
    /\ nClient' = nClient + 1
    /\ UNCHANGED <<listening, codexProcess, upstreamAvailable, outputBuffer,
                   cleanupInterval, now, procState, stdinOpen, stdoutOpen, cbDone, nBackend,
                   parserVars, callVars>>

\* codexProcess.stdout 'data'
BackendData(chunk) ==
    /\ procState \in {"running", "exited"} /\ stdoutOpen /\ ~crashed
    /\ nBackend < MaxBackendChunks
    /\ LET out == parse(outputBuffer, chunk) IN
       /\ outputBuffer' = out.buffer
       /\ Handled(codexLoop(Handling, out.messages, 1))
    /\ nBackend' = nBackend + 1
    /\ UNCHANGED <<listening, codexProcess, upstreamAvailable, inputBuffer,
                   cleanupInterval, now, procState, stdinOpen, stdoutOpen, cbDone, nClient,
                   parserVars, callVars>>

\* the callback of the oldest stdin.write that has not been called back
WriteCallback ==
    /\ ~crashed
    /\ cbDone < Len(stdinWrites)
    /\ Handled(writeCallback(Handling, stdinWrites[cbDone + 1]))
    /\ cbDone' = cbDone + 1
    /\ UNCHANGED <<listening, codexProcess, upstreamAvailable, inputBuffer,
                   outputBuffer, cleanupInterval, now, procState, stdinOpen,
                   stdoutOpen, nClient, nBackend, parserVars, callVars>>

\* codexProcess 'spawn' as it would be if the event could also come after
\* the 'error' or the 'exit' of the child
ProcSpawnLate ==
    /\ ~crashed
    /\ procState \in {"spawning", "failed", "exited"}
    /\ procState' = IF procState = "spawning" THEN "running" ELSE procState
    /\ upstreamAvailable' = TRUE
    /\ UNCHANGED <<listening, codexProcess, inputBuffer, outputBuffer, pending,
                   cleanupInterval, crashed, now, stdinOpen, stdoutOpen, stdinWrites,
                   cbDone,
                   clientOut, historyVars, parserVars, callVars>>

\* codexProcess 'spawn'
ProcSpawn ==
    /\ ~crashed
    /\ procState = "spawning"
    /\ procState' = "running"
    /\ upstreamAvailable' = TRUE
    /\ UNCHANGED <<listening, codexProcess, inputBuffer, outputBuffer, pending,
                   cleanupInterval, crashed, now, stdinOpen, stdoutOpen, stdinWrites,
                   cbDone,
                   clientOut, historyVars, parserVars, callVars>>

\* codexProcess 'error': the spawn failed, or the kill() of stop() failed
ProcError ==
    /\ ~crashed
    /\ \/ procState = "spawning"
       \/ procState = "running" /\ codexProcess = "null"
    /\ procState' = IF procState = "spawning" THEN "failed" ELSE procState
    /\ upstreamAvailable' = FALSE
    /\ UNCHANGED <<listening, codexProcess, inputBuffer, outputBuffer, pending,
                   cleanupInterval, crashed, now, stdinOpen, stdoutOpen, stdinWrites,
                   cbDone,
                   clientOut, historyVars, parserVars, callVars>>

\* codexProcess 'exit'
ProcExit ==
    /\ ~crashed
    /\ procState = "running"
    /\ procState' = "exited"
    /\ upstreamAvailable' = FALSE
    /\ UNCHANGED <<listening, codexProcess, inputBuffer, outputBuffer, pending,
                   cleanupInterval, crashed, now, stdinOpen, stdoutOpen, stdinWrites,
                   cbDone,
                   clientOut, historyVars, parserVars, callVars>>

\* the child's stdin stops being writable: the child has closed it, or has
\* died and its 'exit' is still to come
StdinClose ==
    /\ ~crashed
    /\ stdinOpen
    /\ procState = "running"
    /\ stdinOpen' = FALSE
    /\ UNCHANGED <<proxyVars, now, procState, stdoutOpen, stdinWrites, cbDone,
                   clientOut, historyVars, parserVars, callVars>>

\* the child's stdout ends, after the child has exited
StdoutEnd ==
    /\ ~crashed
    /\ stdoutOpen
    /\ procState = "exited"
    /\ stdoutOpen' = FALSE
    /\ UNCHANGED <<proxyVars, now, procState, stdinOpen, stdinWrites, cbDone,
                   clientOut, historyVars, parserVars, callVars>>

\* time passes, one TTL at a time (the clock is read only against the entries
\* of the tracker)
Tick ==
    /\ ~crashed
    /\ DOMAIN pending # {}
    /\ now < MaxTicks * ttlMs
    /\ now' = now + ttlMs
    /\ UNCHANGED <<proxyVars, procState, stdinOpen, stdoutOpen, stdinWrites, cbDone,
                   clientOut, historyVars, parserVars, callVars>>

\* the sweep as it would be if the client were told of each eviction
SweepNotifying ==
    /\ ~crashed
    /\ cleanupInterval
    /\ pending' = cleanup(pending, now).pending
    /\ clientOut' = IF cleanup(pending, now).cleaned > 0
                    THEN Append(clientOut, <<"evicted">>)
                    ELSE clientOut
    /\ UNCHANGED <<listening, codexProcess, upstreamAvailable, inputBuffer,
                   outputBuffer, cleanupInterval, crashed, now, procState, stdinOpen,
                   stdoutOpen, stdinWrites, cbDone, historyVars, parserVars, callVars>>

\* the setInterval timer of startCleanup fires
Sweep ==
    /\ ~crashed
    /\ cleanupInterval
    /\ pending' = cleanup(pending, now).pending
    /\ UNCHANGED <<listening, codexProcess, upstreamAvailable, inputBuffer,
                   outputBuffer, cleanupInterval, crashed, worldVars, historyVars,
                   parserVars, callVars>>

\* stop() as it would be if it also cleared the availability flag
StopUnavailable ==
    /\ listening /\ ~crashed
    /\ listening' = FALSE
    /\ codexProcess' = "null"
    /\ inputBuffer' = <<>>
    /\ outputBuffer' = <<>>
    /\ cleanupInterval' = FALSE
    /\ pending' = [i \in {} |-> None]
    /\ upstreamAvailable' = FALSE
    /\ UNCHANGED <<crashed, worldVars, historyVars, parserVars, callVars>>

\* process.stdin 'end': stop().  (The host's signal handlers call stop() too,
\* and leave the program at once.)
Stop ==
    /\ listening /\ ~crashed
    /\ listening' = FALSE
    /\ codexProcess' = "null"
    /\ inputBuffer' = <<>>
    /\ outputBuffer' = <<>>
    /\ cleanupInterval' = FALSE
    /\ pending' = [i \in {} |-> None]
    /\ UNCHANGED <<upstreamAvailable, crashed, worldVars, historyVars, parserVars, callVars>>

Init ==
    /\ Constructed
    /\ buffer = <<>>
    /\ rest = <<>>
    /\ source = <<>>
    /\ returned = <<>>
    /\ midcut = FALSE
    /\ call = NoCall

Next ==
    \/ Start
    \/ \E chunk \in ClientChunks : ClientData(chunk)
    \/ \E chunk \in BackendChunks : BackendData(chunk)
    \/ WriteCallback
    \/ ProcSpawn
    \/ ProcError
    \/ ProcExit
    \/ StdinClose
    \/ StdoutEnd
    \/ Tick
    \/ Sweep
    \/ Stop

Spec == Init /\ [][Next]_vars

-----------------------------------------------------------------------------
(* A RequestTracker on its own, made with a small TTL and a small capacity: *)
(* its methods are called in every order while the clock advances.  call   *)
(* holds the last call: what the tracker held before it, the time, what it *)
(* returned, and the call before it.                                       *)

\* the clock of the tracker goes up to
MaxClock == 3

\* new RequestTracker({ttlMs: 1, maxSize: 2})
TrackerOptions == [ttlMs |-> 1, maxSize |-> 2]

\* the requests track() is called on: three ids, one of them with two
\* methods, the id null, and a notification
TrackerRequests ==
    { Request("id=1", "method=tools/list"),
      Request("id=1", "method=tools/call"),
      Request("id=2", "method=tools/call"),
      Request("id=3", "method=tools/list"),
      Request("id=null", "method=tools/call"),
      Request("", "method=tools/call") }

\* the ids complete() and has() are called on: "" stands for undefined
TrackerIds == {"id=1", "id=2", "id=3", "id=null", ""}

NoPrev == [fn |-> "", request |-> None, returned |-> None, clock |-> 0, gone |-> {}]

TrackerInit ==
    /\ Constructed
    /\ buffer = <<>>
    /\ rest = <<>>
    /\ source = <<>>
    /\ returned = <<>>
    /\ midcut = FALSE
    /\ call = [fn |-> "", request |-> None,
               result |-> [before |-> pending, clock |-> 0, returned |-> None,
                           prev |-> NoPrev]]

\* the last call, as the call before the next one
Prev ==
    [fn |-> call.fn, request |-> call.request, returned |-> call.result.returned,
     clock |-> call.result.clock,
     gone |-> (DOMAIN call.result.before) \ (DOMAIN pending)]

trackerFrame ==
    <<listening, codexProcess, upstreamAvailable, inputBuffer, outputBuffer,
      cleanupInterval, crashed, procState, stdinOpen, stdoutOpen, stdinWrites, cbDone,
      clientOut, historyVars, parserVars>>

CallTrack(request) ==
    /\ pending' = trackWith(TrackerOptions, pending, request, now)
    /\ call' = [fn |-> "track", request |-> request,
                result |-> [before |-> pending, clock |-> now, returned |-> None,
                            prev |-> Prev]]
    /\ UNCHANGED <<now, trackerFrame>>

CallComplete(id) ==
    /\ pending' = complete(pending, id).pending
    /\ call' = [fn |-> "complete", request |-> id,
                result |-> [before |-> pending, clock |-> now,
                            returned |-> complete(pending, id).request,
                            prev |-> Prev]]
    /\ UNCHANGED <<now, trackerFrame>>

CallCleanup ==
    /\ pending' = cleanupWith(TrackerOptions, pending, now).pending
    /\ call' = [fn |-> "cleanup", request |-> None,
                result |-> [before |-> pending, clock |-> now,
                            returned |-> cleanupWith(TrackerOptions, pending, now).cleaned,
                            prev |-> Prev]]
    /\ UNCHANGED <<now, trackerFrame>>

CallHas(id) ==
    /\ id # ""
    /\ call' = [fn |-> "has", request |-> id,
                result |-> [before |-> pending, clock |-> now,
                            returned |-> has(pending, id),
                            prev |-> Prev]]
    /\ UNCHANGED <<pending, now, trackerFrame>>

\* Date.now() moves on
AdvanceClock ==
    /\ now < MaxClock
    /\ now' = now + 1
    /\ UNCHANGED <<pending, call, trackerFrame>>

TrackerNext ==
    \/ \E request \in TrackerRequests : CallTrack(request)
    \/ \E id \in TrackerIds : CallComplete(id)
    \/ CallCleanup
    \/ \E id \in TrackerIds : CallHas(id)
    \/ AdvanceClock

SpecTracker == TrackerInit /\ [][TrackerNext]_vars

-----------------------------------------------------------------------------
(* The proxy on batches: the client sends arrays of messages to a backend  *)
(* that starts and keeps running.                                          *)

\* the number of elements of a batch, at most
MaxBatchLen == 2

\* what a batch may hold: two forwarded requests with different ids, a
\* notification, an intercepted request, a response
BatchElements ==
    { Request("id=1", "method=tools/call"),
      Request("id=2", "method=tools/list"),
      Request("", "method=tools/call"),
      Request("id=2", "method=resources/read"),
      Obj(<<Mem("jsonrpc=2.0"), Mem("id=1"), Mem("result=ok")>>) }

Batches == UNION {[1..n -> BatchElements] : n \in 1..MaxBatchLen}

\* the chunk that holds the batch
BatchChunk(elements) == <<LBRACK>> \o StringifyAll(elements) \o <<RBRACK, NL>>

BatchNext ==
    \/ Start
    \/ ProcSpawn
    \/ \E elements \in Batches : ClientData(BatchChunk(elements))
    \/ WriteCallback

SpecBatch == Init /\ [][BatchNext]_vars

-----------------------------------------------------------------------------
(* The proxy on tool catalogues: Init and the actions Start, ProcSpawn,    *)
(* ClientData, BackendData and WriteCallback of the proxy, the client      *)
(* sending a tools/list and a tools/call request and the backend           *)
(* answering with catalogues and other responses.                          *)

\* what the client sends: a request whose response is enriched and one
\* whose response is not
CatalogRequests ==
    { serializeMessage(Request("id=1", "method=tools/list")),
      serializeMessage(Request("id=2", "method=tools/call")) }

\* the tools of a catalogue: the two the table names, one it does not, one
\* whose name is a property every object inherits, one that is a string
CatalogTools ==
    { Obj(<<Mem("name=codex"), Mem("description=orig")>>),
      Obj(<<Mem("name=codex-reply"), Mem("description=orig"), Mem("inputSchema=orig")>>),
      Obj(<<Mem("name=other"), Mem("description=orig")>>),
      Obj(<<Mem("name=constructor"), Mem("description=orig")>>),
      Str(<<>>) }

\* the results a backend answers with: catalogues of one tool, a catalogue
\* of two, an empty one, a result whose tools is no array, a result that is
\* no object
CatalogResults ==
    { Obj(<<MemV("tools:", Arr(<<tool>>))>>) : tool \in CatalogTools }
        \cup { ToolCatalog,
               Obj(<<MemV("tools:", Arr(<<>>))>>),
               Obj(<<MemV("tools:", Obj(<<Mem("name=codex")>>))>>),
               Arr(<<>>) }

\* the responses of the backend, each in a chunk of its own
CatalogResponses ==
    { ResultResponse(idc, result) : idc \in {"id=1", "id=2"}, result \in CatalogResults }
        \cup { ErrorResponse("id=1", BackendError),
               Obj(<<Mem("jsonrpc=2.0"), Mem("id=1"), Mem("result=ok")>>),
               Obj(<<Mem("jsonrpc=2.0"), Mem("id=1"), Mem("result=null"),
                     MemV("error:", BackendError)>>) }

CatalogNext ==
    \/ Start
    \/ ProcSpawn
    \/ \E chunk \in CatalogRequests : ClientData(chunk)
    \/ \E response \in CatalogResponses : BackendData(serializeMessage(response))
    \/ WriteCallback

SpecCatalog == Init /\ [][CatalogNext]_vars

-----------------------------------------------------------------------------
(* The proxy with its log: the handlers of server.ts with their log()      *)
(* calls, for a proxy configured with debug and, next to it, for a proxy   *)
(* that differs in the debug flag only and is given the same events.  x is *)
(* the state a handler works on, with the lines written to stderr:         *)
(*   x = [pending, writes, out, crashed, received, answered, honest,       *)
(*        stderr].                                                         *)

\* shouldLog
shouldLog(level, debug) == ~(level = "debug" /\ ~debug)

\* formatLogMessage, without the time stamp
formatLogMessage(level, message) == <<level, message>>

\* log as it would be if a line of a verbose proxy went to stdout
logToClient(x, level, message, debug) ==
    IF ~shouldLog(level, debug) THEN x
    ELSE IF level = "debug"
    THEN [x EXCEPT !.out = Append(@, formatLogMessage(level, message))]
    ELSE [x EXCEPT !.stderr = Append(@, formatLogMessage(level, message))]

\* CodexMcpProxy.log
log(x, level, message, debug) ==
    IF ~shouldLog(level, debug) THEN x
    ELSE [x EXCEPT !.stderr = Append(@, formatLogMessage(level, message))]

\* forwardToCodex with its log calls
forwardToCodexLogged(x, request, werr, debug) ==
    IF codexProcess = "null" \/ ~stdinOpen
    THEN IF createUpstreamConnectionLostError(request) # None
         THEN sendToClient(log(x, "error", "Codex process not available", debug),
                           createUpstreamConnectionLostError(request))
         ELSE log(x, "error", "Codex process not available", debug)
    ELSE [x EXCEPT !.writes = Append(@, [data    |-> serializeMessage(request),
                                         request |-> request,
                                         err     |-> werr])]

\* the callback of stdin.write with its log call
writeCallbackLogged(x, w, debug) ==
    IF w.err
    THEN IF createUpstreamSendFailedError(w.request) # None
         THEN sendToClient(log(x, "error", "Failed to write to codex", debug),
                           createUpstreamSendFailedError(w.request))
         ELSE log(x, "error", "Failed to write to codex", debug)
    ELSE x

\* handleClientRequest with its log calls
handleClientRequestLogged(x, request, werr, debug) ==
    IF handleRequest(request) # None
    THEN sendToClient(log(log(x, "debug", "Client", debug),
                          "debug", "Intercepted", debug),
                      handleRequest(request))
    ELSE IF ~upstreamAvailable
    THEN IF createUpstreamUnavailableError(request) # None
         THEN sendToClient(log(log(x, "debug", "Client", debug),
                               "error", "Upstream unavailable", debug),
                           createUpstreamUnavailableError(request))
         ELSE log(log(x, "debug", "Client", debug),
                  "error", "Upstream unavailable", debug)
    ELSE forwardToCodexLogged(
             IF ~isNotification(request)
             THEN [log(x, "debug", "Client", debug)
                      EXCEPT !.pending = track(@, request, now)]
             ELSE log(x, "debug", "Client", debug),
             request, werr, debug)

\* the rest of handleCodexResponse once complete() has returned
relayLogged(x, originalRequest, response, debug) ==
    IF originalRequest # None /\ shouldEnhanceResponse(MethodOf(originalRequest))
    THEN IF enhanceToolsListResponse(response) = Thrown
         THEN [x EXCEPT !.crashed = TRUE]
         ELSE sendToClient(log(x, "debug", "Enhanced", debug),
                           enhanceToolsListResponse(response))
    ELSE sendToClient(x, response)

\* handleCodexResponse with its log calls
handleCodexResponseLogged(x, response, debug) ==
    relayLogged([log(x, "debug", "Codex response", debug)
                    EXCEPT !.pending = complete(x.pending, IdOf(response)).pending],
                complete(x.pending, IdOf(response)).request, response, debug)

RECURSIVE clientLoopLogged(_, _, _, _, _)
\* the loop of the stdin 'data' handler, from message k on
clientLoopLogged(x, messages, errs, k, debug) ==
    IF k > Len(messages) THEN x
    ELSE clientLoopLogged(IF isJsonRpcRequest(messages[k])
                          THEN handleClientRequestLogged(noteReceived(x, messages[k]),
                                                         messages[k], errs[k], debug)
                          ELSE x,
                          messages, errs, k + 1, debug)

RECURSIVE codexLoopLogged(_, _, _, _)
\* the loop of the child's stdout 'data' handler, from message k on
codexLoopLogged(x, messages, k, debug) ==
    IF k > Len(messages) \/ x.crashed THEN x
    ELSE codexLoopLogged(IF isJsonRpcResponse(messages[k])
                         THEN handleCodexResponseLogged(noteAnswered(x, messages[k]),
                                                        messages[k], debug)
                         ELSE x,
                         messages, k + 1, debug)

\* the state a handler starts from, nothing written to stderr yet
HandlingLogged ==
    [pending |-> pending, writes |-> stdinWrites, out |-> clientOut,
     crashed |-> crashed, received |-> received, answered |-> answered,
     honest |-> honest, stderr |-> <<>>]

\* what an event leaves on record: the lines this proxy wrote to stderr, and
\* the state and the lines of the proxy whose debug flag is the other one
\* (own and other are states x; the buffers and the flag are the other's)
Logged(event, own, other, inBuf, outBuf, available) ==
    [fn |-> event, request |-> None,
     result |-> [debug  |-> call.result.debug,
                 stderr |-> own.stderr,
                 other  |-> [pending |-> other.pending, writes |-> other.writes,
                             out |-> other.out, crashed |-> other.crashed,
                             stderr |-> other.stderr,
                             inputBuffer |-> inBuf, outputBuffer |-> outBuf,
                             upstreamAvailable |-> available]]]

\* a proxy constructed with either value of config.debug
DebugInit ==
    /\ Constructed
    /\ buffer = <<>>
    /\ rest = <<>>
    /\ source = <<>>
    /\ returned = <<>>
    /\ midcut = FALSE
    /\ \E debug \in BOOLEAN :
          call = [fn |-> "", request |-> None,
                  result |-> [debug |-> debug, stderr |-> <<>>, other |-> None]]

\* process.stdin 'data'
DebugClientData(chunk) ==
    /\ listening /\ ~crashed
    /\ nClient < MaxClientChunks
    /\ inputBuffer' = parse(inputBuffer, chunk).buffer
    /\ \E errs \in [1..Len(parse(inputBuffer, chunk).messages) -> BOOLEAN] :
          /\ \A k \in 1..Len(parse(inputBuffer, chunk).messages) :
                 ~errs[k] => procState \in {"spawning", "running"}
          /\ Handled(clientLoopLogged(HandlingLogged, parse(inputBuffer, chunk).messages,
                                      errs, 1, call.result.debug))
          /\ call' = Logged("stdin data",
                            clientLoopLogged(HandlingLogged,
                                             parse(inputBuffer, chunk).messages,
                                             errs, 1, call.result.debug),
                            clientLoopLogged(HandlingLogged,
                                             parse(inputBuffer, chunk).messages,
                                             errs, 1, ~call.result.debug),
                            parse(inputBuffer, chunk).buffer, outputBuffer,
                            upstreamAvailable)
    /\ nClient' = nClient + 1
    /\ UNCHANGED <<listening, codexProcess, upstreamAvailable, outputBuffer,
                   cleanupInterval, now, procState, stdinOpen, stdoutOpen, cbDone, nBackend,
                   parserVars>>

\* codexProcess.stdout 'data'
DebugBackendData(chunk) ==
    /\ procState \in {"running", "exited"} /\ stdoutOpen /\ ~crashed
    /\ nBackend < MaxBackendChunks
    /\ outputBuffer' = parse(outputBuffer, chunk).buffer
    /\ Handled(codexLoopLogged(HandlingLogged, parse(outputBuffer, chunk).messages,
                               1, call.result.debug))
    /\ call' = Logged("stdout data",
                      codexLoopLogged(HandlingLogged, parse(outputBuffer, chunk).messages,
                                      1, call.result.debug),
                      codexLoopLogged(HandlingLogged, parse(outputBuffer, chunk).messages,
                                      1, ~call.result.debug),
                      inputBuffer, parse(outputBuffer, chunk).buffer, upstreamAvailable)
    /\ nBackend' = nBackend + 1
    /\ UNCHANGED <<listening, codexProcess, upstreamAvailable, inputBuffer,
                   cleanupInterval, now, procState, stdinOpen, stdoutOpen, cbDone, nClient,
                   parserVars>>

\* the callback of the oldest stdin.write that has not been called back
DebugWriteCallback ==
    /\ ~crashed
    /\ cbDone < Len(stdinWrites)
    /\ Handled(writeCallbackLogged(HandlingLogged, stdinWrites[cbDone + 1],
                                   call.result.debug))
    /\ call' = Logged("write callback",
                      writeCallbackLogged(HandlingLogged, stdinWrites[cbDone + 1],
                                          call.result.debug),
                      writeCallbackLogged(HandlingLogged, stdinWrites[cbDone + 1],
                                          ~call.result.debug),
                      inputBuffer, outputBuffer, upstreamAvailable)
    /\ cbDone' = cbDone + 1
    /\ UNCHANGED <<listening, codexProcess, upstreamAvailable, inputBuffer,
                   outputBuffer, cleanupInterval, now, procState, stdinOpen,
                   stdoutOpen, nClient, nBackend, parserVars>>

\* codexProcess 'spawn'
DebugProcSpawn ==
    /\ ~crashed
    /\ procState = "spawning"
    /\ procState' = "running"
    /\ upstreamAvailable' = TRUE
    /\ call' = Logged("spawn",
                      log(HandlingLogged, "info", "Codex process started",
                          call.result.debug),
                      log(HandlingLogged, "info", "Codex process started",
                          ~call.result.debug),
                      inputBuffer, outputBuffer, TRUE)
    /\ UNCHANGED <<listening, codexProcess, inputBuffer, outputBuffer, pending,
                   cleanupInterval, crashed, now, stdinOpen, stdoutOpen, stdinWrites,
                   cbDone, clientOut, historyVars, parserVars>>

\* codexProcess 'exit'
DebugProcExit ==
    /\ ~crashed
    /\ procState = "running"
    /\ procState' = "exited"
    /\ upstreamAvailable' = FALSE
    /\ call' = Logged("exit",
                      log(HandlingLogged, "info", "Codex process exited",
                          call.result.debug),
                      log(HandlingLogged, "info", "Codex process exited",
                          ~call.result.debug),
                      inputBuffer, outputBuffer, FALSE)
    /\ UNCHANGED <<listening, codexProcess, inputBuffer, outputBuffer, pending,
                   cleanupInterval, crashed, now, stdinOpen, stdoutOpen, stdinWrites,
                   cbDone, clientOut, historyVars, parserVars>>

DebugNext ==
    \/ Start
    \/ \E chunk \in ClientChunks : DebugClientData(chunk)
    \/ \E chunk \in BackendChunks : DebugBackendData(chunk)
    \/ DebugWriteCallback
    \/ DebugProcSpawn
    \/ DebugProcExit
    \/ StdinClose

SpecDebug == DebugInit /\ [][DebugNext]_vars

-----------------------------------------------------------------------------
(* The proxy on intercepted requests: Init and the actions Start,          *)
(* ProcSpawn, ProcError, ProcExit, StdinClose, ClientData and              *)
(* WriteCallback of the proxy, the client sending resources/list and       *)
(* resources/read requests that carry an id, alone and in a batch, and a   *)
(* tools/call request that is forwarded.                                   *)

InterceptChunks ==
    { serializeMessage(Request("id=1", "method=resources/list")),
      serializeMessage(Request("id=2", "method=resources/read")),
      serializeMessage(Request("id=null", "method=resources/read")),
      <<LBRACK>> \o JsonStringify(Request("id=2", "method=resources/list"))
                 \o JsonStringify(Request("id=1", "method=resources/read"))
                 \o <<RBRACK, NL>>,
      serializeMessage(Request("id=1", "method=tools/call")) }

InterceptNext ==
    \/ Start
    \/ ProcSpawn
    \/ ProcError
    \/ ProcExit
    \/ StdinClose
    \/ \E chunk \in InterceptChunks : ClientData(chunk)
    \/ WriteCallback

SpecIntercept == Init /\ [][InterceptNext]_vars

-----------------------------------------------------------------------------
(* The proxy on messages of the wrong kind: Init and the actions Start,    *)
(* ProcSpawn, ClientData, BackendData and WriteCallback of the proxy, the  *)
(* client sending responses among its requests and the backend sending     *)
(* requests and notifications among its responses.                         *)

\* what the client sends: a request, a response, an error response, a batch
\* of a response and a request
RelayClientChunks ==
    { serializeMessage(Request("id=1", "method=tools/call")),
      serializeMessage(Obj(<<Mem("jsonrpc=2.0"), Mem("id=1"), Mem("result=ok")>>)),
      serializeMessage(ErrorResponse("id=2", BackendError)),
      <<LBRACK>> \o JsonStringify(Obj(<<Mem("jsonrpc=2.0"), Mem("id=2"), Mem("result=ok")>>))
                 \o JsonStringify(Request("id=2", "method=tools/call"))
                 \o <<RBRACK, NL>> }

\* what the backend prints: a response, a request of its own with an id the
\* client uses, a notification, a notification and a response in one chunk
RelayBackendChunks ==
    { serializeMessage(Obj(<<Mem("jsonrpc=2.0"), Mem("id=1"), Mem("result=ok")>>)),
      serializeMessage(Request("id=1", "method=tools/call")),
      serializeMessage(Request("", "method=tools/list")),
      serializeMessage(Request("", "method=tools/call"))
          \o serializeMessage(ErrorResponse("id=2", BackendError)) }

RelayNext ==
    \/ Start
    \/ ProcSpawn
    \/ \E chunk \in RelayClientChunks : ClientData(chunk)
    \/ \E chunk \in RelayBackendChunks : BackendData(chunk)
    \/ WriteCallback

SpecRelay == Init /\ [][RelayNext]_vars

-----------------------------------------------------------------------------
(* The proxy stopped by its host: stop() is a public method, and it        *)
(* removes no listener, so that the host may call it while the client's    *)
(* channel is open, the client may go on sending after it, and the host    *)
(* may call it again (the host's signal handlers call it after the         *)
(* client's channel has ended).                                            *)

\* what the client sends: a request, a notification, the start of a request
StopClientChunks ==
    { serializeMessage(Request("id=1", "method=tools/list")),
      serializeMessage(Request("", "method=tools/call")),
      <<LBRACE, "jsonrpc=2.0", "id=2">> }

\* what the backend prints: a response, the start of a response
StopBackendChunks ==
    { serializeMessage(Obj(<<Mem("jsonrpc=2.0"), Mem("id=1"), Mem("result=ok")>>)),
      <<LBRACE, "jsonrpc=2.0", "id=1">> }

\* stop() has been called
Stopped == ~listening /\ procState # "none"

\* stop(), called again
StopAgain ==
    /\ Stopped /\ ~crashed
    /\ codexProcess' = "null"
    /\ inputBuffer' = <<>>
    /\ outputBuffer' = <<>>
    /\ cleanupInterval' = FALSE
    /\ pending' = [i \in {} |-> None]
    /\ UNCHANGED <<listening, upstreamAvailable, crashed, worldVars, historyVars,
                   parserVars, callVars>>

\* process.stdin 'data' after stop(): the listener is still there
StoppedClientData(chunk) ==
    /\ Stopped /\ ~crashed
    /\ nClient < MaxClientChunks
    /\ LET out == parse(inputBuffer, chunk) IN
       /\ inputBuffer' = out.buffer
       /\ \E errs \in [1..Len(out.messages) -> BOOLEAN] :
             /\ \A k \in 1..Len(out.messages) :
                    ~errs[k] => procState \in {"spawning", "running"}
             /\ Handled(clientLoop(Handling, out.messages, errs, 1))
    /\ nClient' = nClient + 1
    /\ UNCHANGED <<listening, codexProcess, upstreamAvailable, outputBuffer,
                   cleanupInterval, now, procState, stdinOpen, stdoutOpen, cbDone, nBackend,
                   parserVars, callVars>>

StopNext ==
    \/ Start
    \/ ProcSpawn
    \/ ProcExit
    \/ \E chunk \in StopClientChunks : ClientData(chunk)
    \/ \E chunk \in StopBackendChunks : BackendData(chunk)
    \/ WriteCallback
    \/ Stop
    \/ StopAgain
    \/ \E chunk \in StopClientChunks : StoppedClientData(chunk)

SpecStop == Init /\ [][StopNext]_vars

-----------------------------------------------------------------------------
(* Claims about the framer *)

AllValid == \A k \in 1..Len(source) : source[k].valid

SourceMessages == [k \in 1..Len(source) |-> source[k].v]

IsPrefix(s, t) == Len(s) <= Len(t) /\ s = SubSeq(t, 1, Len(s))

\* C1 (chunk-boundary invariance): when the incoming text is a sequence of
\* serialized valid messages, then however it is cut into chunks (empty
\* ones included) the messages parse() has returned so far are the first
\* messages of the sequence, in order, and once the whole text has been fed
\* they are exactly the sequence.
C1_ChunkInvariance ==
    AllValid =>
        /\ IsPrefix(returned, SourceMessages)
        /\ (rest = <<>> => returned = SourceMessages)

\* two valid messages, cut inside a message, fed to the end
C1_Witness ==
    /\ AllValid
    /\ Len(source) = 2
    /\ midcut
    /\ rest = <<>>
    /\ returned = SourceMessages

\* a value shaped as a Request or as a Response
Shaped(v) == isJsonRpcRequest(v) \/ isJsonRpcResponse(v)

\* C11 (extraction goes on after a dropped span): when parse() returns,
\* no complete valid message is left in the buffer; whatever complete
\* message followed a dropped span was returned by the same call.
C11_NothingCompleteLeft ==
    SelectSeq(parse(buffer, <<>>).messages, Shaped) = <<>>

RECURSIVE IsSubsequence(_, _)
\* the elements of s occur in t, in the order of s
IsSubsequence(s, t) ==
    IF s = <<>> THEN TRUE
    ELSE IF t = <<>> THEN FALSE
    ELSE IF Head(s) = Head(t) THEN IsSubsequence(Tail(s), Tail(t))
    ELSE IsSubsequence(s, Tail(t))

\* the valid messages of the incoming text, in order
ValidSourceMessages ==
    LET valid == SelectSeq(source, LAMBDA item : item.valid) IN
    [k \in 1..Len(valid) |-> valid[k].v]

\* the whole text has arrived and further calls of parse() change nothing
Quiescent ==
    /\ rest = <<>>
    /\ parse(buffer, <<>>) = [buffer |-> buffer, messages |-> <<>>]

\* C12 (framing continues after a framing error): whatever malformed or
\* unbalanced spans the text holds, once the whole text has arrived and
\* parse() has nothing more to give, every valid message of the text has
\* been returned, in order.
C12_LaterMessagesReturned ==
    Quiescent => IsSubsequence(ValidSourceMessages, returned)

\* the number of characters of the incoming text that have been fed
Fed == Len(TextOf(source)) - Len(rest)

\* the position, in the text of valid items, of the closing bracket of item j
\* (0 for j = 0)
ValueEnd(j) == IF j = 0 THEN 0 ELSE Len(TextOf(SubSeq(source, 1, j))) - 1

\* the number of items whose value has arrived whole
CompleteCount == Cardinality({j \in 1..Len(source) : ValueEnd(j) <= Fed})

\* C13 (no partial value): when the incoming text is a sequence of
\* serialized valid messages, the messages returned so far are exactly
\* those whose closing bracket has arrived, and the buffer holds, after
\* whitespace, exactly the characters that have arrived after the last of
\* them: the beginning of a value that is not complete is kept and nothing
\* of it is returned.
C13_NoPartialValue ==
    AllValid =>
        /\ returned = SubSeq(SourceMessages, 1, CompleteCount)
        /\ trimStart(buffer)
               = trimStart(SubSeq(TextOf(source), ValueEnd(CompleteCount) + 1, Fed))

\* the first of two messages has been returned and the text has been fed
\* up to a point inside the second
C13_Witness ==
    /\ AllValid
    /\ Len(source) = 2
    /\ Fed > ValueEnd(1) + 2
    /\ Fed < ValueEnd(2)
    /\ Len(returned) = 1
    /\ Len(buffer) = Fed - ValueEnd(1)

\* C14 (noise tolerance): a fresh parser given a valid message behind a
\* prefix that holds no opening bracket returns what a fresh parser given
\* the message alone returns, the message itself; and given the prefix
\* alone it returns nothing and discards the whole buffer.
C14_NoiseTolerance ==
    call.fn = "parse" =>
        /\ call.result.noisy.messages = call.result.plain.messages
        /\ call.result.plain.messages = <<call.request.message>>
        /\ call.result.alone = [buffer |-> <<>>, messages |-> <<>>]

\* the prefix holds a quote and a closing brace, the message is a response
C14_Witness ==
    /\ call.fn = "parse"
    /\ call.request.prefix = <<QUOTE, RBRACE>>
    /\ call.request.message = ResultResponse("id=1", ToolCatalog)
    /\ call.result.noisy.messages = <<ResultResponse("id=1", ToolCatalog)>>

\* C15 (escape safety): a message whose string value holds brackets, quotes
\* and backslashes is framed at its true closing bracket, as an object and
\* inside an array, and parse() returns it whole, followed by the message
\* after it.
C15_EscapeSafety ==
    call.fn = "findJsonEnd" =>
        /\ call.result.objectEnd = Len(JsonStringify(call.request.message))
        /\ call.result.arrayEnd = Len(JsonStringify(call.request.message)) + 2
        /\ call.result.messages
               = <<call.request.message, Request("id=2", "method=tools/list")>>

\* the string value holds a closing brace, a quote and an opening bracket
C15_Witness ==
    /\ call.fn = "findJsonEnd"
    /\ call.request.value = Str(<<Chr(RBRACE), Chr(QUOTE), Chr(LBRACK)>>)
    /\ call.result.objectEnd = Len(JsonStringify(call.request.message))

\* C17: every value parse() has returned is shaped as a Request or as a
\* Response.
C17_OnlyShapedReturned ==
    \A k \in 1..Len(returned) : Shaped(returned[k])

-----------------------------------------------------------------------------
(* Claims about the interception policy *)

\* the reply the policy prescribes for a request that carries an id
PrescribedReply(request) ==
    IF MethodOf(request) = "method=resources/list"
    THEN Obj(<<Mem("jsonrpc=2.0"), Mem(IdOf(request)),
               MemV("result:", Obj(<<MemV("resources:", Arr(<<>>))>>))>>)
    ELSE IF MethodOf(request) = "method=resources/read"
    THEN Obj(<<Mem("jsonrpc=2.0"), Mem(IdOf(request)),
               MemV("error:", Obj(<<Mem("code=-32002"),
                                    Mem("message=Resource not found")>>))>>)
    ELSE None

\* C2 (intercept policy): for a request that carries an id, handleRequest
\* returns, with that id, the result {resources: []} when the method is
\* resources/list, the error -32002 "Resource not found" when it is
\* resources/read, and null (the request is not intercepted) for every
\* other method.
C2_InterceptPolicy ==
    (call.fn = "handleRequest" /\ HasKey(call.request, "id"))
        => call.result = PrescribedReply(call.request)

C2_Witness ==
    /\ call.fn = "handleRequest"
    /\ IdOf(call.request) = "id=2"
    /\ MethodOf(call.request) = "method=resources/read"
    /\ HasKey(call.request, "params")
    /\ Member(call.result, "error").kids[1].kids[1].s = "code=-32002"

\* response.error and response.error.data (None when there is none)
ErrorOf(response) ==
    IF HasKey(response, "error") THEN Member(response, "error").kids[1] ELSE None

DataOf(response) ==
    IF HasKey(ErrorOf(response), "data")
    THEN Member(ErrorOf(response), "data").kids[1]
    ELSE None

\* the error response carries the id of the request, a message, and in data
\* a detail, a suggestion, retryable and the method of the request
StructuredFor(request, response) ==
    /\ Member(response, "id") = Member(request, "id")
    /\ HasKey(ErrorOf(response), "message")
    /\ HasKey(DataOf(response), "detail")
    /\ HasKey(DataOf(response), "suggestion")
    /\ HasKey(DataOf(response), "retryable")
    /\ HasKey(DataOf(response), "method")
    /\ Member(DataOf(response), "method") = Member(request, "method")

\* C21, as stated: every error response the proxy makes carries the id of
\* the request it is made for, a message, data.detail, data.suggestion,
\* data.retryable, and data.method equal to the method of that request.
C21_EveryErrorStructured ==
    HasKey(call.result, "error") => StructuredFor(call.request, call.result)

\* C21, as the code has it: every error response made by the three
\* createUpstream... functions has the code -32603 and carries the id of the
\* request it is made for, a message, data.detail, data.suggestion,
\* data.retryable, and data.method equal to the method of that request; the
\* error handleRequest makes for resources/read carries the id of the
\* request, the code -32002 and the message "Resource not found", and no
\* data.
C21_UpstreamErrorsStructured ==
    HasKey(call.result, "error") =>
        IF call.fn = "handleRequest"
        THEN /\ MethodOf(call.request) = "method=resources/read"
             /\ call.result = Obj(<<Mem("jsonrpc=2.0"), Member(call.request, "id"),
                                    MemV("error:", Obj(<<Mem("code=-32002"),
                                                         Mem("message=Resource not found")>>))>>)
        ELSE /\ StructuredFor(call.request, call.result)
             /\ Member(ErrorOf(call.result), "code") = Mem("code=-32603")
             /\ Len(call.result.kids) = 3

\* the error made for a failed send of a tools/call request with the id 2
C21_Witness ==
    /\ call.fn = "createUpstreamSendFailedError"
    /\ call.request = RequestP("id=2", "method=tools/call", TrickyString)
    /\ IdOf(call.result) = "id=2"
    /\ Member(DataOf(call.result), "method") = Mem("method=tools/call")
    /\ Member(DataOf(call.result), "retryable") = Mem("retryable=true")

-----------------------------------------------------------------------------
(* Claims about the tracker *)

\* an id complete() looks up: neither undefined nor null
Resolvable(id) == id # "" /\ id # "id=null"

\* the last call was track() of a request that has an id
Tracked == call.fn = "track" /\ HasKey(call.request, "id")

\* the call before the last was track() of a request that has an id
TrackedBefore ==
    call.result.prev.fn = "track" /\ HasKey(call.result.prev.request, "id")

\* C23: track() of a request whose id is tracked replaces the entry: the
\* tracker does not grow, the entry holds the later request and the time of
\* the later track(); complete(id) right after returns the later request
\* (the id being a string or a number); and a sweep right after evicts the
\* entry by the time of the later track().
C23_OneEntryPerId ==
    /\ (Tracked /\ IdOf(call.request) \in DOMAIN call.result.before) =>
           /\ size(pending) <= size(call.result.before)
           /\ size(call.result.before) < TrackerOptions.maxSize =>
                  DOMAIN pending = DOMAIN call.result.before
           /\ pending[IdOf(call.request)]
                  = [request |-> call.request, timestamp |-> call.result.clock]
    /\ (call.fn = "complete" /\ TrackedBefore /\ Resolvable(call.request)
            /\ IdOf(call.result.prev.request) = call.request) =>
           call.result.returned = call.result.prev.request
    /\ (call.fn = "cleanup" /\ TrackedBefore) =>
           (IdOf(call.result.prev.request) \in DOMAIN pending
               <=> call.result.clock - call.result.prev.clock <= TrackerOptions.ttlMs)

\* the id 1, tracked at time 0 with tools/list, is tracked at time 2 with
\* tools/call
C23_Witness ==
    /\ call.fn = "track"
    /\ call.request = Request("id=1", "method=tools/call")
    /\ call.result.clock = 2
    /\ DOMAIN call.result.before = {"id=1"}
    /\ call.result.before["id=1"]
           = [request |-> Request("id=1", "method=tools/list"), timestamp |-> 0]
    /\ size(pending) = 1
    /\ pending["id=1"].timestamp = 2

\* C24: complete(id) of a tracked id removes the entry of id, leaves the
\* others, and returns the request that was tracked; complete(id) of an id
\* that is not tracked, of null and of undefined returns undefined and
\* leaves the tracker as it is; and complete(id) right after complete(id)
\* returns undefined.
C24_Complete ==
    call.fn = "complete" =>
        /\ IF Resolvable(call.request) /\ call.request \in DOMAIN call.result.before
           THEN /\ call.result.returned = call.result.before[call.request].request
                /\ DOMAIN pending = (DOMAIN call.result.before) \ {call.request}
                /\ \A id \in DOMAIN pending : pending[id] = call.result.before[id]
           ELSE /\ call.result.returned = None
                /\ pending = call.result.before
        /\ (call.result.prev.fn = "complete" /\ call.result.prev.request = call.request) =>
               call.result.returned = None

\* complete(1) has returned the request, and complete(1) right after it
\* returns undefined
C24_Witness ==
    /\ call.fn = "complete"
    /\ call.request = "id=1"
    /\ call.result.prev.fn = "complete"
    /\ call.result.prev.request = "id=1"
    /\ call.result.prev.returned = Request("id=1", "method=tools/list")
    /\ call.result.prev.gone = {"id=1"}
    /\ call.result.returned = None
    /\ DOMAIN pending = {"id=2"}

\* the age of the entry of id at the time of the last call
AgeBefore(id) == call.result.clock - call.result.before[id].timestamp

\* C25 (TTL eviction): a sweep removes every entry older than the TTL and
\* leaves every other entry as it is; right after the sweep, has(i) is false
\* and complete(i) returns undefined for every id i the sweep removed.
C25_TtlEviction ==
    /\ call.fn = "cleanup" =>
           \A id \in DOMAIN call.result.before :
               IF AgeBefore(id) > TrackerOptions.ttlMs
               THEN id \notin DOMAIN pending
               ELSE id \in DOMAIN pending /\ pending[id] = call.result.before[id]
    /\ (call.fn = "has" /\ call.result.prev.fn = "cleanup"
            /\ call.request \in call.result.prev.gone) =>
           call.result.returned = FALSE
    /\ (call.fn = "complete" /\ call.result.prev.fn = "cleanup"
            /\ call.request \in call.result.prev.gone) =>
           call.result.returned = None

\* two ids were tracked, 2 at time 0 and 1 at time 1; the sweep at time 2
\* has removed 2 and left 1, and has(2) is false
C25_Witness ==
    /\ call.fn = "has"
    /\ call.request = "id=2"
    /\ call.result.returned = FALSE
    /\ call.result.clock = 2
    /\ call.result.prev.fn = "cleanup"
    /\ call.result.prev.gone = {"id=2"}
    /\ DOMAIN pending = {"id=1"}
    /\ pending["id=1"].timestamp = 1

\* C26: the sweep returns the number of entries it removed, and a sweep
\* right after a sweep, at the same time, removes nothing, returns 0 and
\* leaves the tracker as it is.
C26_SweepCountIdempotent ==
    call.fn = "cleanup" =>
        /\ call.result.returned = size(call.result.before) - size(pending)
        /\ (call.result.prev.fn = "cleanup"
                /\ call.result.prev.clock = call.result.clock) =>
               /\ call.result.returned = 0
               /\ pending = call.result.before

\* a sweep that removed two entries and left one, then a sweep at the same
\* time
C26_Witness ==
    /\ call.fn = "cleanup"
    /\ call.result.prev.fn = "cleanup"
    /\ call.result.prev.clock = call.result.clock
    /\ call.result.prev.returned = 2
    /\ Cardinality(call.result.prev.gone) = 2
    /\ call.result.returned = 0
    /\ size(pending) = 1

\* C27 (capacity pressure): after track() of a request that has an id the
\* tracker holds the request under its id, whatever its size; when the size
\* had reached the ceiling, the other entries older than the TTL are gone
\* and every other entry is as it was; when it had not, every other entry
\* is as it was.
C27_CapacityPressure ==
    Tracked =>
        /\ has(pending, IdOf(call.request))
        /\ pending[IdOf(call.request)]
               = [request |-> call.request, timestamp |-> call.result.clock]
        /\ \A id \in (DOMAIN call.result.before) \ {IdOf(call.request)} :
               IF /\ size(call.result.before) >= TrackerOptions.maxSize
                  /\ AgeBefore(id) > TrackerOptions.ttlMs
               THEN id \notin DOMAIN pending
               ELSE id \in DOMAIN pending /\ pending[id] = call.result.before[id]

\* the tracker held three entries, over its ceiling of two, one of them
\* older than the TTL; track() of a fourth id has swept that one and left
\* the tracker with three entries again
C27_Witness ==
    /\ call.fn = "track"
    /\ call.request = Request("id=null", "method=tools/call")
    /\ call.result.clock = 2
    /\ DOMAIN call.result.before = {"id=1", "id=2", "id=3"}
    /\ call.result.before["id=1"].timestamp = 0
    /\ DOMAIN pending = {"id=2", "id=3", "id=null"}
    /\ size(pending) > TrackerOptions.maxSize
    /\ pending["id=2"].timestamp = 1
    /\ pending["id=3"].timestamp = 1

ExpiredBefore(id) ==
    id \in DOMAIN call.result.before /\ AgeBefore(id) > TrackerOptions.ttlMs

\* C39 (expiry is enforced only by a sweep): an entry leaves the tracker
\* only by complete() of its id, by cleanup(), or by track() of a tracker
\* at its ceiling; has(id) of an entry older than the TTL is true and
\* leaves it there, complete(id) of one returns the request it holds, and
\* track() of a tracker below its ceiling leaves every other entry,
\* however old, as it was.
C39_ExpiryOnlyBySweep ==
    /\ (DOMAIN call.result.before) \ (DOMAIN pending) # {} =>
           \/ call.fn = "cleanup"
           \/ call.fn = "complete"
                 /\ (DOMAIN call.result.before) \ (DOMAIN pending) = {call.request}
           \/ Tracked /\ size(call.result.before) >= TrackerOptions.maxSize
    /\ (call.fn = "has" /\ ExpiredBefore(call.request)) =>
           call.result.returned /\ pending = call.result.before
    /\ (call.fn = "complete" /\ Resolvable(call.request) /\ ExpiredBefore(call.request)) =>
           call.result.returned = call.result.before[call.request].request
    /\ (Tracked /\ size(call.result.before) < TrackerOptions.maxSize) =>
           \A id \in (DOMAIN call.result.before) \ {IdOf(call.request)} :
               id \in DOMAIN pending /\ pending[id] = call.result.before[id]

\* the entry of 1 was three TTLs old and no sweep had run: has(1) was true,
\* and complete(1) then returned the request
C39_Witness ==
    /\ call.fn = "complete" /\ call.request = "id=1"
    /\ call.result.clock = 3
    /\ has(call.result.before, "id=1")
    /\ call.result.before["id=1"].timestamp = 0
    /\ call.result.returned = Request("id=1", "method=tools/list")
    /\ call.result.prev.fn = "has" /\ call.result.prev.request = "id=1"
    /\ call.result.prev.returned = TRUE
    /\ call.result.prev.clock = 3

-----------------------------------------------------------------------------
(* Claims about the proxy *)

HasId(message) == HasKey(message, "id")

\* the id of a line written to the client
IdOfText(text) == IdOf(JsonParse(text).v)

\* the member of the error object of a line written to the client
ErrorMemberOfText(text, key) ==
    LET error == Member(JsonParse(text).v, "error") IN
    IF error.kids = <<>> THEN "" ELSE Member(error.kids[1], key).s

\* the number of lines written to the client that carry this id
CountOut(id) ==
    Cardinality({k \in 1..Len(clientOut) : IdOfText(clientOut[k]) = id})

\* the ids of the id-carrying requests received so far
ReceivedIds == {id \in IdMembers : received[id] > 0}

\* the requests the framer extracts when the chunk arrives on a buffer buf
ExtractedRequests(buf, chunk) ==
    SelectSeq(parse(buf, chunk).messages, isJsonRpcRequest)

\* the responses the framer extracts when the chunk arrives on a buffer buf
ExtractedResponses(buf, chunk) ==
    SelectSeq(parse(buf, chunk).messages, isJsonRpcResponse)

InterceptedMethods == {"method=resources/list", "method=resources/read"}

\* C3 (notification rule): no message is written to the client on account
\* of a request without an id.  Handling a chunk of client input writes at
\* most one message per id-carrying request of the chunk, each with the id
\* of such a request, whatever the methods, the state of the backend and
\* the outcomes of the writes; and the completion of the write of a
\* request without an id, failed or not, writes nothing.
C3_NotificationRule ==
    [][ /\ \A chunk \in ClientChunks :
              (nClient' # nClient /\ ClientData(chunk)) =>
                  LET withId == SelectSeq(ExtractedRequests(inputBuffer, chunk), HasId) IN
                  /\ IsPrefix(clientOut, clientOut')
                  /\ Len(clientOut') - Len(clientOut) <= Len(withId)
                  /\ \A k \in (Len(clientOut) + 1)..Len(clientOut') :
                         \E j \in 1..Len(withId) :
                             IdOfText(clientOut'[k]) = IdOf(withId[j])
        /\ (cbDone' # cbDone /\ ~HasId(stdinWrites[cbDone + 1].request)) =>
              clientOut' = clientOut
      ]_vars

\* the write of a request without an id has failed, its callback has run,
\* and nothing has been written to the client
C3_Witness ==
    /\ clientOut = <<>>
    /\ \E k \in 1..cbDone :
           /\ ~HasId(stdinWrites[k].request)
           /\ stdinWrites[k].err

\* C4 (interception whether or not there is an id): a request whose method
\* is resources/list or resources/read is never written to the backend
\* channel and never tracked.
C4_InterceptedNeverForwarded ==
    /\ \A k \in 1..Len(stdinWrites) :
           MethodOf(stdinWrites[k].request) \notin InterceptedMethods
    /\ \A id \in DOMAIN pending :
           MethodOf(pending[id].request) \notin InterceptedMethods

\* C5 (backend-down forwarding): while availability is false, handling a
\* chunk of client input writes nothing to the backend channel, leaves the
\* tracker as it is, and writes to the client, before the handler returns,
\* exactly one message per id-carrying request, in order and with its id:
\* for a request that is not intercepted, the error -32603 "Codex service
\* is not available".
C5_BackendDown ==
    [][ \A chunk \in ClientChunks :
            (nClient' # nClient /\ ~upstreamAvailable /\ ClientData(chunk)) =>
                LET withId == SelectSeq(ExtractedRequests(inputBuffer, chunk), HasId) IN
                /\ stdinWrites' = stdinWrites
                /\ pending' = pending
                /\ IsPrefix(clientOut, clientOut')
                /\ Len(clientOut') = Len(clientOut) + Len(withId)
                /\ \A j \in 1..Len(withId) :
                       LET text == clientOut'[Len(clientOut) + j] IN
                       /\ IdOfText(text) = IdOf(withId[j])
                       /\ MethodOf(withId[j]) \notin InterceptedMethods =>
                              /\ ErrorMemberOfText(text, "code") = "code=-32603"
                              /\ ErrorMemberOfText(text, "message")
                                     = "message=Codex service is not available"
      ]_vars

\* a request arrived before the backend was up: the client has the error,
\* the backend channel and the tracker have nothing
C5_Witness ==
    /\ procState = "spawning"
    /\ received["id=1"] = 1
    /\ Len(clientOut) = 1
    /\ IdOfText(clientOut[1]) = "id=1"
    /\ ErrorMemberOfText(clientOut[1], "message") = "message=Codex service is not available"
    /\ stdinWrites = <<>>
    /\ DOMAIN pending = {}

\* C6 (no duplicate response), as stated: for every id of a request
\* received from the client, no more messages carrying that id are written
\* to the client than requests carrying it were received, in every
\* interleaving of write callbacks, backend output, lifecycle events and
\* sweeps.
C6_AtMostOnePerRequest ==
    \A id \in ReceivedIds : CountOut(id) <= received[id]

\* C6, amended: the same, as long as every response the backend has printed
\* answered a request that had been delivered to it and that it had not
\* answered before.
C6_NoDuplicate ==
    honest => \A id \in ReceivedIds : CountOut(id) <= received[id]

\* the id 1 was used by two requests: the backend answered the one that
\* reached it, the write of the other failed and its callback reported it
C6_Witness ==
    /\ honest
    /\ received["id=1"] = 2
    /\ CountOut("id=1") = 2
    /\ answered # {}
    /\ \E k \in 1..cbDone : stdinWrites[k].err /\ IdOf(stdinWrites[k].request) = "id=1"

\* the backend has exited, its output has ended, and no write callback is
\* outstanding: nothing that could answer a request is still to come
Settled ==
    /\ procState = "exited"
    /\ ~stdoutOpen
    /\ cbDone = Len(stdinWrites)

\* C7 (every request is answered): once nothing is left to be handled, the
\* client has been written, for every id, at least as many messages
\* carrying it as requests carrying it were received.
C7_AllAnswered ==
    Settled => \A id \in ReceivedIds : CountOut(id) >= received[id]

\* C8 (responses only for requests), as stated: every message written to
\* the client carries the id of an id-carrying request received before.
C8_OnlyRequestedIds ==
    \A k \in 1..Len(clientOut) : IdOfText(clientOut[k]) \in ReceivedIds

\* C8, amended: every message written to the client carries the id of an
\* id-carrying request received before, as long as every response the
\* backend has printed answered a request that had been delivered to it;
\* a response the backend prints on its own is relayed whatever its id.
C8_OnlyRequestedIdsOfHonestBackend ==
    honest => \A k \in 1..Len(clientOut) : IdOfText(clientOut[k]) \in ReceivedIds

\* the client has an answer made by the proxy and an answer relayed from the
\* backend
C8_Witness ==
    /\ honest
    /\ answered # {}
    /\ \E k \in 1..Len(clientOut) : ErrorMemberOfText(clientOut[k], "code") = "code=-32002"
    /\ \E k \in 1..Len(clientOut) : IdOfText(clientOut[k]) = "id=1"

\* response j of the responses rs of one chunk finds no entry in the
\* tracker: its id is undefined or null, or is not tracked, or was
\* completed by an earlier response of the chunk
Untracked(rs, j) ==
    \/ IdOf(rs[j]) \in {"", "id=null"}
    \/ IdOf(rs[j]) \notin DOMAIN pending
    \/ \E i \in 1..(j - 1) : IdOf(rs[i]) = IdOf(rs[j])

\* C9 (correlation is no precondition for relaying): handling a chunk of
\* backend output writes to the client one message per response extracted,
\* in order, unless a handler threw; a response that finds no entry in the
\* tracker is written as it was decoded, and no handler throws on a chunk
\* whose responses all find no entry.
C9_UntrackedRelayed ==
    [][ \A chunk \in BackendChunks :
            (nBackend' # nBackend /\ BackendData(chunk)) =>
                LET rs == ExtractedResponses(outputBuffer, chunk) IN
                /\ (\A j \in 1..Len(rs) : Untracked(rs, j)) => ~crashed'
                /\ ~crashed' =>
                       /\ IsPrefix(clientOut, clientOut')
                       /\ Len(clientOut') = Len(clientOut) + Len(rs)
                       /\ \A j \in 1..Len(rs) :
                              Untracked(rs, j) =>
                                  clientOut'[Len(clientOut) + j] = serializeMessage(rs[j])
      ]_vars

\* a tools/list request was forwarded and tracked, the sweep evicted it, and
\* the catalogue the backend then answered with reached the client as the
\* backend printed it
C9_Witness ==
    /\ listening /\ honest
    /\ Len(stdinWrites) = 1
    /\ stdinWrites[1].request = Request("id=1", "method=tools/list")
    /\ "id=1" \notin DOMAIN pending
    /\ clientOut = <<serializeMessage(ResultResponse("id=1", ToolCatalog))>>

\* a forwarded request: one that is not answered by the proxy itself
Forwarded(request) ==
    ~(HasId(request) /\ MethodOf(request) \in InterceptedMethods)

\* C10 (FIFO forwarding): handling a chunk of client input appends to what
\* has been written to the backend channel exactly the forwarded requests
\* of the chunk, serialized, in the order the framer extracted them (none
\* when the backend is unavailable or its stdin is not writable); no other
\* step changes what has been written; and the callbacks of the writes run
\* in the order of the writes.
C10_Fifo ==
    [][ /\ \A chunk \in ClientChunks :
              (nClient' # nClient /\ ClientData(chunk)) =>
                  LET fwd == IF upstreamAvailable /\ codexProcess # "null" /\ stdinOpen
                             THEN SelectSeq(ExtractedRequests(inputBuffer, chunk), Forwarded)
                             ELSE <<>>
                  IN  /\ IsPrefix(stdinWrites, stdinWrites')
                      /\ Len(stdinWrites') = Len(stdinWrites) + Len(fwd)
                      /\ \A k \in 1..Len(fwd) :
                             /\ stdinWrites'[Len(stdinWrites) + k].request = fwd[k]
                             /\ stdinWrites'[Len(stdinWrites) + k].data = serializeMessage(fwd[k])
        /\ nClient' = nClient => stdinWrites' = stdinWrites
        /\ cbDone' \in {cbDone, cbDone + 1}
      ]_vars

\* two chunks, three writes: the request of the first chunk, then the two
\* requests of the batch in the order of the batch
C10_Witness ==
    /\ nClient = 2
    /\ [k \in 1..Len(stdinWrites) |-> stdinWrites[k].request]
           = << Request("id=1", "method=tools/list"),
                Request("id=1", "method=tools/call"),
                Request("", "method=tools/call") >>

\* the member of error.data of a line written to the client
ErrorDataOfText(text, key) ==
    LET error == Member(JsonParse(text).v, "error") IN
    IF error.kids = <<>> THEN ""
    ELSE LET data == Member(error.kids[1], "data") IN
         IF data.kids = <<>> THEN "" ELSE Member(data.kids[1], key).s

\* the backend was confirmed started and has exited, and handling a chunk of
\* client input answers each id-carrying request that is not intercepted
\* with the error -32603 whose data.retryable is the one given
ExitedStep(retryable) ==
    \A chunk \in ClientChunks :
        (nClient' # nClient /\ procState = "exited" /\ ClientData(chunk)) =>
            LET withId == SelectSeq(ExtractedRequests(inputBuffer, chunk), HasId) IN
            /\ Len(clientOut') = Len(clientOut) + Len(withId)
            /\ \A j \in 1..Len(withId) :
                   LET text == clientOut'[Len(clientOut) + j] IN
                   MethodOf(withId[j]) \notin InterceptedMethods =>
                       /\ IdOfText(text) = IdOf(withId[j])
                       /\ ErrorMemberOfText(text, "code") = "code=-32603"
                       /\ ErrorDataOfText(text, "retryable") = retryable

NeverConfirmed == procState \in {"spawning", "failed"}

\* C19: while the backend has never been confirmed started, handling a chunk
\* of client input answers each id-carrying request that is not intercepted
\* with the error -32603 whose data.retryable is true, tracks nothing and
\* writes nothing to the backend; and nothing is forwarded later: a step
\* that is not the handling of client input writes nothing to the backend,
\* and the handling of a chunk writes requests of that chunk only.
C19_NeverConfirmed ==
    [][ /\ \A chunk \in ClientChunks :
              (nClient' # nClient /\ ClientData(chunk)) =>
                  LET requests == ExtractedRequests(inputBuffer, chunk)
                      withId   == SelectSeq(requests, HasId)
                  IN  /\ \A k \in (Len(stdinWrites) + 1)..Len(stdinWrites') :
                             \E j \in 1..Len(requests) :
                                 stdinWrites'[k].request = requests[j]
                      /\ NeverConfirmed =>
                             /\ stdinWrites' = stdinWrites
                             /\ pending' = pending
                             /\ Len(clientOut') = Len(clientOut) + Len(withId)
                             /\ \A j \in 1..Len(withId) :
                                    LET text == clientOut'[Len(clientOut) + j] IN
                                    MethodOf(withId[j]) \notin InterceptedMethods =>
                                        /\ IdOfText(text) = IdOf(withId[j])
                                        /\ ErrorMemberOfText(text, "code") = "code=-32603"
                                        /\ ErrorDataOfText(text, "retryable")
                                               = "retryable=true"
        /\ nClient' = nClient => stdinWrites' = stdinWrites
        /\ NeverConfirmed => stdinWrites = <<>> /\ DOMAIN pending = {}
      ]_vars

\* a request arrived while the spawn was under way and got the error; the
\* spawn has since been confirmed and nothing has been written to the
\* backend
C19_Witness ==
    /\ procState = "running"
    /\ upstreamAvailable
    /\ received["id=1"] = 1
    /\ Len(clientOut) = 1
    /\ IdOfText(clientOut[1]) = "id=1"
    /\ ErrorMemberOfText(clientOut[1], "message") = "message=Codex service is not available"
    /\ ErrorDataOfText(clientOut[1], "retryable") = "retryable=true"
    /\ stdinWrites = <<>>
    /\ DOMAIN pending = {}

\* C20: with availability true, (a) handling a chunk of client input while
\* the backend's write channel is missing or not writable writes nothing to
\* the backend and answers each id-carrying request that is not intercepted
\* with "Connection to Codex service was lost", data.retryable = false;
\* (b) the completion of a write that reports an error answers the request,
\* if it has an id, with "Failed to send request to Codex", data.retryable =
\* true; (c) the completion of a write that reports no error writes nothing
\* to the client.
C20_ErrorMatchesCondition ==
    [][ /\ \A chunk \in ClientChunks :
              (/\ nClient' # nClient
               /\ upstreamAvailable
               /\ codexProcess = "null" \/ ~stdinOpen
               /\ ClientData(chunk)) =>
                  LET withId == SelectSeq(ExtractedRequests(inputBuffer, chunk), HasId) IN
                  /\ stdinWrites' = stdinWrites
                  /\ Len(clientOut') = Len(clientOut) + Len(withId)
                  /\ \A j \in 1..Len(withId) :
                         LET text == clientOut'[Len(clientOut) + j] IN
                         MethodOf(withId[j]) \notin InterceptedMethods =>
                             /\ IdOfText(text) = IdOf(withId[j])
                             /\ ErrorMemberOfText(text, "code") = "code=-32603"
                             /\ ErrorMemberOfText(text, "message")
                                    = "message=Connection to Codex service was lost"
                             /\ ErrorDataOfText(text, "retryable") = "retryable=false"
        /\ cbDone' # cbDone =>
               LET w == stdinWrites[cbDone + 1] IN
               IF w.err /\ HasId(w.request)
               THEN /\ Len(clientOut') = Len(clientOut) + 1
                    /\ IsPrefix(clientOut, clientOut')
                    /\ IdOfText(clientOut'[Len(clientOut')]) = IdOf(w.request)
                    /\ ErrorMemberOfText(clientOut'[Len(clientOut')], "code") = "code=-32603"
                    /\ ErrorMemberOfText(clientOut'[Len(clientOut')], "message")
                           = "message=Failed to send request to Codex"
                    /\ ErrorDataOfText(clientOut'[Len(clientOut')], "retryable")
                           = "retryable=true"
               ELSE clientOut' = clientOut
      ]_vars

\* a write failed and its request got "send failed"; then the backend's
\* stdin closed and the next request got "connection lost"
C20_Witness ==
    /\ upstreamAvailable
    /\ ~stdinOpen
    /\ Len(stdinWrites) = 1
    /\ stdinWrites[1].err
    /\ Len(clientOut) = 2
    /\ ErrorMemberOfText(clientOut[1], "message") = "message=Failed to send request to Codex"
    /\ ErrorDataOfText(clientOut[1], "retryable") = "retryable=true"
    /\ ErrorMemberOfText(clientOut[2], "message")
           = "message=Connection to Codex service was lost"
    /\ ErrorDataOfText(clientOut[2], "retryable") = "retryable=false"

\* an element of a batch that the proxy forwards and tracks
OwnId(message) ==
    /\ isJsonRpcRequest(message)
    /\ HasId(message)
    /\ MethodOf(message) \notin InterceptedMethods

\* the requests of the writes w, in order
RequestsOf(w) == [k \in 1..Len(w) |-> w[k].request]

\* C16 (batch round trip): parse() returns the n elements of a batch of
\* valid messages as n messages in the order of the array; and, the backend
\* being available and its stdin writable, handling the batch tracks each
\* element that has an id and a method that is not intercepted under its
\* own id, and writes each such element to the backend as a message of its
\* own, one line each, in the order of the array.
C16_BatchRoundTrip ==
    [][ \A elements \in Batches :
            (nClient' # nClient /\ ClientData(BatchChunk(elements))) =>
                LET own    == SelectSeq(elements, OwnId)
                    writes == SubSeq(stdinWrites', Len(stdinWrites) + 1, Len(stdinWrites'))
                IN  /\ parse(inputBuffer, BatchChunk(elements)).messages = elements
                    /\ IsPrefix(stdinWrites, stdinWrites')
                    /\ (upstreamAvailable /\ codexProcess # "null" /\ stdinOpen) =>
                           /\ SelectSeq(RequestsOf(writes), HasId) = own
                           /\ \A k \in 1..Len(writes) :
                                  writes[k].data = serializeMessage(writes[k].request)
                           /\ \A j \in 1..Len(own) :
                                  /\ IdOf(own[j]) \in DOMAIN pending'
                                  /\ IdOf(pending'[IdOf(own[j])].request) = IdOf(own[j])
                                  /\ \E i \in 1..Len(own) :
                                         pending'[IdOf(own[j])].request = own[i]
      ]_vars

\* a batch of two requests with the ids 1 and 2 has been handled: both are
\* tracked, each under its id, and written in the order of the batch
C16_Witness ==
    /\ nClient = 1
    /\ RequestsOf(stdinWrites)
           = << Request("id=1", "method=tools/call"), Request("id=2", "method=tools/list") >>
    /\ DOMAIN pending = {"id=1", "id=2"}
    /\ pending["id=1"].request = Request("id=1", "method=tools/call")
    /\ pending["id=2"].request = Request("id=2", "method=tools/list")

\* handling a chunk of client input while the backend is available leaves
\* each forwarded request that has an id in the tracker, under its id, with
\* the time of the handling (the last of them, when several have the id)
TrackedOnForward ==
    \A chunk \in ClientChunks :
        (nClient' # nClient /\ upstreamAvailable /\ ClientData(chunk)) =>
            LET own == SelectSeq(ExtractedRequests(inputBuffer, chunk), OwnId) IN
            /\ \A j \in 1..Len(own) :
                   /\ IdOf(own[j]) \in DOMAIN pending'
                   /\ pending'[IdOf(own[j])].timestamp = now
                   /\ (\A i \in (j + 1)..Len(own) : IdOf(own[i]) # IdOf(own[j])) =>
                          pending'[IdOf(own[j])].request = own[j]
            /\ \A k \in (Len(stdinWrites) + 1)..Len(stdinWrites') :
                   HasId(stdinWrites'[k].request) =>
                       /\ IdOf(stdinWrites'[k].request) \in DOMAIN pending'
                       /\ IdOf(pending'[IdOf(stdinWrites'[k].request)].request)
                              = IdOf(stdinWrites'[k].request)

\* the step takes the entry of id away or replaces it
Released(id) == id \notin DOMAIN pending' \/ pending'[id] # pending[id]

\* the step handles a backend response that carries the id
Completes(id) ==
    /\ nBackend' # nBackend
    /\ \E chunk \in BackendChunks :
           /\ BackendData(chunk)
           /\ \E k \in 1..Len(ExtractedResponses(outputBuffer, chunk)) :
                  IdOf(ExtractedResponses(outputBuffer, chunk)[k]) = id

\* the step is a sweep and the entry of id is older than the TTL
Evicts(id) ==
    /\ nClient' = nClient /\ nBackend' = nBackend /\ listening' = listening
    /\ pending' = cleanup(pending, now).pending
    /\ now - pending[id].timestamp > ttlMs

\* the step forwards another request that carries the id
Retracks(id) ==
    /\ nClient' # nClient
    /\ upstreamAvailable
    /\ \E chunk \in ClientChunks :
           /\ ClientData(chunk)
           /\ \E k \in 1..Len(ExtractedRequests(inputBuffer, chunk)) :
                  /\ OwnId(ExtractedRequests(inputBuffer, chunk)[k])
                  /\ IdOf(ExtractedRequests(inputBuffer, chunk)[k]) = id

\* the step is stop()
Stops == listening /\ ~listening'

\* C22, as stated: a forwarded request with an id is tracked, under its id,
\* when its write is attempted, and for as long as the proxy runs its entry
\* stays as it is until a response with its id is handled or a sweep finds
\* it older than the TTL.
C22_TrackedUntilCompletedOrEvicted ==
    [][ /\ TrackedOnForward
        /\ \A id \in DOMAIN pending :
               Released(id) => Completes(id) \/ Evicts(id) \/ Stops
      ]_vars

\* C22, as the code has it: a forwarded request with an id is tracked, under
\* its id, when its write is attempted, and its entry stays as it is until a
\* response with its id is handled, a sweep finds it older than the TTL,
\* another request with the same id is forwarded (the entry then holds that
\* request), or the proxy is stopped (the tracker is cleared).
C22_TrackedUntilReleased ==
    [][ /\ TrackedOnForward
        /\ \A id \in DOMAIN pending :
               Released(id) => Completes(id) \/ Evicts(id) \/ Retracks(id) \/ Stops
      ]_vars

\* the response to a tools/list request arrived before the callback of the
\* request's write ran: it found the request, and the client has the
\* catalogue with the descriptions added
C22_Witness ==
    /\ Len(stdinWrites) = 1
    /\ stdinWrites[1].request = Request("id=1", "method=tools/list")
    /\ cbDone = 0
    /\ nBackend = 1
    /\ DOMAIN pending = {}
    /\ Len(clientOut) = 1
    /\ clientOut[1] = serializeMessage(enhanceToolsListResponse(ResultResponse("id=1", ToolCatalog)))
    /\ clientOut[1] # serializeMessage(ResultResponse("id=1", ToolCatalog))


\* the tools array a response holds in its result (None when it holds none)
ToolsOf(response) ==
    LET rm == Member(response, "result") IN
    IF Truthy(rm) /\ IsObjectValue(rm)
          /\ Truthy(Member(rm.kids[1], "tools"))
          /\ Member(rm.kids[1], "tools").kids[1].t = "arr"
    THEN Member(rm.kids[1], "tools").kids[1].kids
    ELSE None

\* the response with these tools in place of its own
WithTools(response, tools) ==
    LET result == Member(response, "result").kids[1] IN
    Obj(PutMember(response.kids,
                  MemV("result:", Obj(PutMember(result.kids, MemV("tools:", Arr(tools)))))))

\* the tool is an object named codex or codex-reply
NamedInTable(tool) ==
    tool.t = "obj" /\ Member(tool, "name").s \in {"name=codex", "name=codex-reply"}

\* the response finds in the tracker a request whose method is tools/list
CorrelatedToolsList(response) ==
    /\ IdOf(response) \in DOMAIN pending
    /\ MethodOf(pending[IdOf(response)].request) = "method=tools/list"

\* C28 (the rewrite is the identity on what it does not recognize): for
\* every response of the backend that is written to the client, the message
\* written has the same id and the same error as the backend's, and is the
\* backend's message unless the request tracked under its id has the method
\* tools/list and its result holds a tools array; then the message written
\* is the backend's with a tools array of the same length in which every
\* tool not named codex or codex-reply is as the backend sent it.
C28_RewriteIdentity ==
    [][ \A response \in CatalogResponses :
            (nBackend' # nBackend /\ ~crashed'
                /\ BackendData(serializeMessage(response))) =>
                /\ Len(clientOut') = Len(clientOut) + 1
                /\ LET written == JsonParse(clientOut'[Len(clientOut')]).v IN
                   /\ Member(written, "id") = Member(response, "id")
                   /\ Member(written, "error") = Member(response, "error")
                   /\ IF CorrelatedToolsList(response) /\ ToolsOf(response) # None
                      THEN /\ ToolsOf(written) # None
                           /\ Len(ToolsOf(written)) = Len(ToolsOf(response))
                           /\ written = WithTools(response, ToolsOf(written))
                           /\ \A k \in 1..Len(ToolsOf(response)) :
                                  ~NamedInTable(ToolsOf(response)[k]) =>
                                      ToolsOf(written)[k] = ToolsOf(response)[k]
                      ELSE written = response
      ]_vars


\* C29 (no backend response is dropped): handling a chunk of backend output
\* never throws and writes to the client exactly one message per response
\* extracted from it, after what was written before, whatever the responses
\* hold, whether or not their ids are tracked and whatever the availability
\* flag is.
C29_EveryResponseWritten ==
    [][ \A chunk \in BackendChunks :
            (nBackend' # nBackend /\ BackendData(chunk)) =>
                /\ ~crashed'
                /\ IsPrefix(clientOut, clientOut')
                /\ Len(clientOut') =
                       Len(clientOut) + Len(ExtractedResponses(outputBuffer, chunk))
      ]_vars


\* the 'error' or the 'exit' event of the child has been handled
Ended == procState \in {"failed", "exited"} \/ (procState = "running" /\ ~upstreamAvailable)

\* C30 (Unavailable is terminal): once the 'error' or the 'exit' event of
\* the child has been handled the availability flag is false, and no step
\* makes it true again, in every order in which the 'spawn', 'error' and
\* 'exit' events of one child can come.
C30_UnavailableTerminal ==
    /\ [](Ended => ~upstreamAvailable)
    /\ [][Ended => (Ended' /\ ~upstreamAvailable')]_vars

\* the child was spawned and took a request, then exited, and a later
\* request was refused
C30_Witness ==
    /\ procState = "exited" /\ ~upstreamAvailable
    /\ Len(stdinWrites) = 1
    /\ nClient = 2
    /\ \E k \in 1..Len(clientOut) : ErrorMemberOfText(clientOut[k], "code") = "code=-32603"


\* C31 (what changes the availability flag): the flag is false until an
\* event of the child has been handled; the handling of 'spawn' makes it
\* true and nothing else does; the handling of 'error' and of 'exit' makes
\* it false, in whatever state of the proxy they come, and nothing else
\* does: no handling of client or backend data, no write callback, no
\* sweep, no tick of the clock and no stop() changes it.
C31_AvailabilityChanges ==
    /\ [](procState \in {"none", "spawning"} => ~upstreamAvailable)
    /\ [][ /\ ProcSpawn => upstreamAvailable'
           /\ (ProcError \/ ProcExit) => ~upstreamAvailable'
           /\ (upstreamAvailable' # upstreamAvailable) =>
                  IF upstreamAvailable' THEN ProcSpawn ELSE (ProcError \/ ProcExit)
      ]_vars

\* the flag is still true after the child was spawned, a request was
\* forwarded, a chunk of the backend was handled and stop() has run
C31_Witness ==
    /\ upstreamAvailable /\ ~listening
    /\ Len(stdinWrites) = 1
    /\ nBackend = 1


\* C32 (the two framers are independent): handling a chunk of the client
\* leaves the buffer of the backend direction as it is, and handling a
\* chunk of the backend leaves the buffer of the client direction as it is;
\* what a chunk of one direction leaves in that direction's buffer is what
\* parse() leaves of that buffer and that chunk alone, whatever partial or
\* malformed text the other direction holds.
C32_FramersIndependent ==
    [][ /\ nClient' # nClient => outputBuffer' = outputBuffer
        /\ nBackend' # nBackend => inputBuffer' = inputBuffer
        /\ \A chunk \in ClientChunks :
               (nClient' # nClient /\ ClientData(chunk)) =>
                   inputBuffer' = parse(inputBuffer, chunk).buffer
        /\ \A chunk \in BackendChunks :
               (nBackend' # nBackend /\ BackendData(chunk)) =>
                   outputBuffer' = parse(outputBuffer, chunk).buffer
      ]_vars

\* the client direction holds the first half of a request and the backend
\* direction the start of a response, each after a chunk of its own
C32_Witness ==
    /\ inputBuffer # <<>> /\ outputBuffer # <<>>
    /\ inputBuffer # outputBuffer
    /\ nClient >= 1 /\ nBackend = 1


\* the lines a line-by-line log holds that are not of the debug level
NotDebugLevel(line) == line[1] # "debug"

\* C33 (the debug flag affects verbosity only): after every event, the
\* proxy and the proxy that differs from it in the debug flag only, given
\* the same event in the same state, have written the same messages to the
\* client and to the backend and have the same tracker, buffers and
\* availability flag (so they have after every sequence of events); and
\* what the quiet one wrote to stderr is what the verbose one wrote without
\* the lines of the debug level.
C33_DebugVerbosityOnly ==
    call.fn # "" =>
        /\ call.result.other.out = clientOut
        /\ call.result.other.writes = stdinWrites
        /\ call.result.other.pending = pending
        /\ call.result.other.crashed = crashed
        /\ call.result.other.inputBuffer = inputBuffer
        /\ call.result.other.outputBuffer = outputBuffer
        /\ call.result.other.upstreamAvailable = upstreamAvailable
        /\ IF call.result.debug
           THEN call.result.other.stderr = SelectSeq(call.result.stderr, NotDebugLevel)
           ELSE call.result.stderr = SelectSeq(call.result.other.stderr, NotDebugLevel)

\* a chunk of the client was refused by a proxy without debug logging: it
\* wrote the error line to stderr, the verbose proxy wrote more, and the
\* client got the error response
C33_Witness ==
    /\ call.fn = "stdin data" /\ ~call.result.debug
    /\ Len(call.result.stderr) = 1
    /\ Len(call.result.other.stderr) > 1
    /\ Len(clientOut) = 1
    /\ ErrorMemberOfText(clientOut[1], "code") = "code=-32603"


\* the step is a sweep that evicts an entry
SweepEvicts == \E id \in DOMAIN pending : id \notin DOMAIN pending' /\ Evicts(id)

InterceptedWithId(request) ==
    HasId(request) /\ MethodOf(request) \in InterceptedMethods

\* the prescribed replies to the requests, serialized, in order
RECURSIVE RepliesTo(_)
RepliesTo(requests) ==
    IF requests = <<>> THEN <<>>
    ELSE <<serializeMessage(PrescribedReply(Head(requests)))>> \o RepliesTo(Tail(requests))

\* C35 (interception precedes the availability gate): handling a chunk of
\* the client whose requests are all resources/list or resources/read
\* requests with an id writes to the client the prescribed local reply to
\* each, in order, whether the child is being spawned, is available, failed
\* to spawn, has exited or has closed its stdin, and leaves the tracker and
\* what was written to the backend as they are.
C35_InterceptedInEveryState ==
    [][ \A chunk \in InterceptChunks :
            (nClient' # nClient /\ ClientData(chunk)) =>
                LET requests == ExtractedRequests(inputBuffer, chunk) IN
                (\A k \in 1..Len(requests) : InterceptedWithId(requests[k])) =>
                    /\ clientOut' = clientOut \o RepliesTo(requests)
                    /\ pending' = pending
                    /\ stdinWrites' = stdinWrites
                    /\ cbDone' = cbDone
      ]_vars

\* the child has exited with a request in the tracker, and a resources/read
\* request then got its -32002 reply
C35_Witness ==
    /\ procState = "exited" /\ ~upstreamAvailable
    /\ DOMAIN pending = {"id=1"}
    /\ Len(stdinWrites) = 1
    /\ Len(clientOut) = 1
    /\ ErrorMemberOfText(clientOut[1], "code") = "code=-32002"
    /\ IdOfText(clientOut[1]) = "id=2"


RECURSIVE NotedUpTo(_, _, _)
\* the history once the first j responses of rs are counted as answers
NotedUpTo(m, rs, j) ==
    IF j = 0 THEN m ELSE noteAnswered(NotedUpTo(m, rs, j - 1), rs[j])

\* the writes that response j of the responses rs of one chunk may answer:
\* those carrying its id that reached the backend and have no answer yet
OpenFor(rs, j) == Unanswered(NotedUpTo(Handling, rs, j - 1), IdOf(rs[j]))

\* the request that response j answers: the oldest of them
AnsweredRequest(rs, j) ==
    stdinWrites[CHOOSE k \in OpenFor(rs, j) : \A i \in OpenFor(rs, j) : k <= i].request

\* response j of the chunk is written to the client otherwise than decoded
Rewritten(rs, j) ==
    clientOut'[Len(clientOut) + j] # serializeMessage(rs[j])

Range(seq) == {seq[k] : k \in 1..Len(seq)}

\* C38 (one kind per direction): handling a chunk of the backend writes to
\* the client the Response-shaped messages extracted from it, one line
\* each, in order, and nothing for any other message, and writes nothing to
\* the backend; handling a chunk of the client writes to the backend only
\* Request-shaped messages extracted from it, and to the client only lines
\* that carry the id of such a request; a message of the other kind changes
\* neither the tracker nor anything written.
C38_OneKindPerDirection ==
    [][ /\ \A chunk \in RelayBackendChunks :
               (nBackend' # nBackend /\ BackendData(chunk)) =>
                   LET rs == ExtractedResponses(outputBuffer, chunk) IN
                   /\ ~crashed'
                   /\ clientOut' = clientOut
                          \o [j \in 1..Len(rs) |-> serializeMessage(rs[j])]
                   /\ stdinWrites' = stdinWrites
                   /\ \A id \in DOMAIN pending :
                          (\A j \in 1..Len(rs) : IdOf(rs[j]) # id) =>
                              id \in DOMAIN pending' /\ pending'[id] = pending[id]
        /\ \A chunk \in RelayClientChunks :
               (nClient' # nClient /\ ClientData(chunk)) =>
                   LET requests == ExtractedRequests(inputBuffer, chunk) IN
                   /\ IsPrefix(stdinWrites, stdinWrites')
                   /\ IsPrefix(clientOut, clientOut')
                   /\ Len(stdinWrites') - Len(stdinWrites) <= Len(requests)
                   /\ \A k \in (Len(stdinWrites) + 1)..Len(stdinWrites') :
                          stdinWrites'[k].request \in Range(requests)
                   /\ Len(clientOut') - Len(clientOut) <= Len(SelectSeq(requests, HasId))
                   /\ \A k \in (Len(clientOut) + 1)..Len(clientOut') :
                          \E r \in Range(requests) :
                              HasId(r) /\ IdOfText(clientOut'[k]) = IdOf(r)
                   /\ \A id \in (DOMAIN pending) \cup (DOMAIN pending') :
                          (\A r \in Range(requests) : IdOf(r) # id) =>
                              /\ id \in DOMAIN pending /\ id \in DOMAIN pending'
                              /\ pending'[id] = pending[id]
      ]_vars

\* the client's request with the id 1 is in the tracker and was written to
\* the backend; the client then sent a response and the backend a request
\* with that id, and nothing more was written to either
C38_Witness ==
    /\ nClient = 2 /\ nBackend = 1
    /\ outputBuffer = <<>> /\ inputBuffer = <<>>
    /\ Len(stdinWrites) = 1
    /\ stdinWrites[1].request = Request("id=1", "method=tools/call")
    /\ ~stdinWrites[1].err
    /\ "id=1" \in DOMAIN pending
    /\ clientOut = <<>>
    /\ honest

\* C40: stop() leaves the tracker empty, the periodic sweep cancelled, both
\* framer buffers empty and the process handle released; once stop() has
\* been called no step writes to the backend's channel, whatever the client
\* sends; and stop() called on the state that stop() has left changes
\* nothing.
AsStopLeaves ==
    /\ DOMAIN pending = {}
    /\ ~cleanupInterval
    /\ inputBuffer = <<>>
    /\ outputBuffer = <<>>
    /\ codexProcess = "null"

C40_StopReleases ==
    [][ /\ (Stop \/ StopAgain) => AsStopLeaves'
        /\ Stopped => stdinWrites' = stdinWrites
        /\ (StopAgain /\ AsStopLeaves) => UNCHANGED vars ]_vars

\* stop() has been called with a request forwarded and another one waiting
\* in the tracker; a request that came after it is tracked and was answered
\* with the connection-lost error, and nothing more was written
C40_Witness ==
    /\ Stopped
    /\ upstreamAvailable
    /\ Len(stdinWrites) = 1
    /\ has(pending, "id=1")
    /\ Len(clientOut) = 1
    /\ clientOut[1] = serializeMessage(
           createUpstreamConnectionLostError(Request("id=1", "method=tools/list")))

====
